---- MODULE Spec2Model ----
(***************************************************************************)
(* Model of the `hook <event>` command of claude-code-sync (src/src/cli.ts) *)
(* and of the SyncClient it forwards records with (src/unnamed/part_000).  *)
(* One action is one hook invocation: it loads the session-state file,     *)
(* handles one lifecycle event, saves the file where the code saves it,    *)
(* issues its collector calls in order and exits.  A collector call that   *)
(* fails throws out of the handler into the top-level catch, so what the   *)
(* handler would have done after that call is not done.                    *)
(***************************************************************************)
EXTENDS Integers, Sequences, FiniteSets, TLC

VARIABLES
    store,         \* the session-state file: session id -> accumulator
    transcript,    \* the transcript file of each session: its lines, in order
    delivered,     \* collector: the entry ids of the assistant Messages it holds
    last           \* the last invocation: event, input, calls, outcome

vars == <<store, transcript, delivered, last>>

----------------------------------------------------------------------------
(* Bounds of the model *)

MaxLines == 2
MaxCount == 2
MaxParseLines == 3
MaxPromptLen == 100
MaxTokens == 1000

Sessions == {"S1"}
Models == {"claude-sonnet-4-20250514"}
Uuids == {"u1", "u2"}
NoUuid == ""

\* prompts are character sequences
Prompts == { <<>>, <<"f","i","x"," ","b","u","g">> }

----------------------------------------------------------------------------
(* JavaScript objects with optional fields: a function whose domain is the  *)
(* set of fields that are defined                                           *)

EmptyObj == [f \in {} |-> 0]
Has(o, f) == f \in DOMAIN o
Get(o, f, d) == IF f \in DOMAIN o THEN o[f] ELSE d
Put(o, f, v) == [g \in (DOMAIN o) \cup {f} |-> IF g = f THEN v ELSE o[g]]
Del(o, f) == [g \in (DOMAIN o) \ {f} |-> o[g]]
\* a field that is assigned a possibly undefined value
PutOpt(o, f, defined, v) == IF defined THEN Put(o, f, v) ELSE Del(o, f)

Min(a, b) == IF a < b THEN a ELSE b

----------------------------------------------------------------------------
(* generateTitle (cli.ts): strings are sequences of characters *)

TitleWindow == 80
TitleMinBreak == 40
Whitespace == {" ", "\t", "\n"}
Ellipsis == <<".", ".", ".">>

\* String.prototype.slice(a, b) for 0 <= a <= b
Slice(s, a, b) == SubSeq(s, a + 1, Min(b, Len(s)))

RECURSIVE TrimStart(_)
TrimStart(s) ==
    IF s # <<>> /\ Head(s) \in Whitespace THEN TrimStart(Tail(s)) ELSE s

RECURSIVE TrimEnd(_)
TrimEnd(s) ==
    IF s # <<>> /\ s[Len(s)] \in Whitespace
    THEN TrimEnd(SubSeq(s, 1, Len(s) - 1))
    ELSE s

Trim(s) == TrimEnd(TrimStart(s))

\* String.prototype.lastIndexOf: 0-based, -1 when absent
LastIndexOf(s, c) ==
    LET I == {i \in 1..Len(s) : s[i] = c}
    IN  IF I = {} THEN -1 ELSE (CHOOSE i \in I : \A j \in I : j <= i) - 1

generateTitle(prompt) ==
    LET trimmed == Trim(Slice(prompt, 0, TitleWindow))
    IN  IF Len(prompt) > TitleWindow
        THEN LET lastSpace == LastIndexOf(trimmed, " ")
             IN  IF lastSpace > TitleMinBreak
                 THEN Slice(trimmed, 0, lastSpace) \o Ellipsis
                 ELSE trimmed \o Ellipsis
        ELSE trimmed

----------------------------------------------------------------------------
(* Transcript lines and parseTranscriptFile (cli.ts) *)

\* a usage block with every counter 0
NoUsage ==
    [input_tokens |-> 0, output_tokens |-> 0,
     cache_read_input_tokens |-> 0, cache_creation_input_tokens |-> 0]

\* the usage block the model's assistant entries carry
Usage ==
    [input_tokens |-> 70, output_tokens |-> 50,
     cache_read_input_tokens |-> 20, cache_creation_input_tokens |-> 10]

\* a transcript line: message tells whether the entry has a message body,
\* texts is the number of content parts of kind "text" with a non-empty
\* text, usage is the usage block of the body with the counters it defines
\* (none when the body has no usage block); a line without uuid has uuid
\* NoUuid
Line(type, uuid, message, texts, usage) ==
    [type |-> type, uuid |-> uuid, message |-> message, texts |-> texts,
     usage |-> usage]

AssistantLine(uuid, texts) == Line("assistant", uuid, TRUE, texts, Usage)

UserLine == Line("user", NoUuid, TRUE, 0, NoUsage)
\* a line JSON.parse rejects
MalformedLine == Line("malformed", NoUuid, FALSE, 0, NoUsage)

\* the lines the host writes: a turn with one text part under either uuid or
\* under none, a turn with two text parts, a turn with tool calls only, and a
\* line the parser skips
Lines ==
    { AssistantLine("u1", 1), AssistantLine("u2", 1), AssistantLine(NoUuid, 1),
      AssistantLine("u1", 2), AssistantLine("u2", 0), UserLine }

EmptyParse == [assistantMessages |-> <<>>, tokenUsage |-> [input |-> 0, output |-> 0]]

\* the text parts of line i, as the messages pushed for them
TextMessages(entry, i) ==
    [k \in 1..entry.texts |-> [uuid |-> entry.uuid, text |-> <<i, k>>]]

\* a variant that leaves the cache counters out of the input total
AddUsageUncached(total, usage) ==
    [input |-> total.input + Get(usage, "input_tokens", 0),
     output |-> total.output + Get(usage, "output_tokens", 0)]
\* a missing counter, and every counter of a missing usage block, counts 0
AddUsage(total, usage) ==
    [input |-> total.input + Get(usage, "input_tokens", 0)
                 + Get(usage, "cache_read_input_tokens", 0)
                 + Get(usage, "cache_creation_input_tokens", 0),
     output |-> total.output + Get(usage, "output_tokens", 0)]

\* a variant of the loop without the seenUuids test
RECURSIVE ParseLinesUnfiltered(_, _, _, _)
ParseLinesUnfiltered(lines, i, seenUuids, result) ==
    IF i > Len(lines) THEN result
    ELSE LET entry == lines[i]
         IN  IF entry.type # "assistant" \/ ~entry.message
             THEN ParseLinesUnfiltered(lines, i + 1, seenUuids, result)
             ELSE ParseLinesUnfiltered(lines, i + 1, seenUuids,
                    [assistantMessages |->
                        result.assistantMessages \o TextMessages(entry, i),
                     tokenUsage |-> AddUsage(result.tokenUsage, entry.usage)])

\* a variant of the loop that ends at the first line JSON.parse rejects
RECURSIVE ParseLinesAborting(_, _, _, _)
ParseLinesAborting(lines, i, seenUuids, result) ==
    IF i > Len(lines) THEN result
    ELSE LET entry == lines[i]
         IN  IF entry.type = "malformed" THEN result
             ELSE IF entry.type # "assistant" \/ ~entry.message
             THEN ParseLinesAborting(lines, i + 1, seenUuids, result)
             ELSE IF entry.uuid # NoUuid /\ entry.uuid \in seenUuids
             THEN ParseLinesAborting(lines, i + 1, seenUuids, result)
             ELSE ParseLinesAborting(lines, i + 1,
                    IF entry.uuid # NoUuid THEN seenUuids \cup {entry.uuid}
                                           ELSE seenUuids,
                    [assistantMessages |->
                        result.assistantMessages \o TextMessages(entry, i),
                     tokenUsage |-> AddUsage(result.tokenUsage, entry.usage)])

\* the for loop over the lines, from line i on
RECURSIVE ParseLines(_, _, _, _)
ParseLines(lines, i, seenUuids, result) ==
    IF i > Len(lines) THEN result
    ELSE LET entry == lines[i]
         IN  IF entry.type # "assistant" \/ ~entry.message
             THEN ParseLines(lines, i + 1, seenUuids, result)
             ELSE IF entry.uuid # NoUuid /\ entry.uuid \in seenUuids
             THEN ParseLines(lines, i + 1, seenUuids, result)
             ELSE ParseLines(lines, i + 1,
                    IF entry.uuid # NoUuid THEN seenUuids \cup {entry.uuid}
                                           ELSE seenUuids,
                    [assistantMessages |->
                        result.assistantMessages \o TextMessages(entry, i),
                     tokenUsage |-> AddUsage(result.tokenUsage, entry.usage)])

\* a variant that reads the lines without the existsSync test
parseTranscriptFileUnchecked(file) == ParseLines(file.lines, 1, {}, EmptyParse)
\* file: [exists, lines]
parseTranscriptFile(file) ==
    IF ~file.exists THEN EmptyParse
    ELSE ParseLines(file.lines, 1, {}, EmptyParse)

----------------------------------------------------------------------------
(* parseTranscript (part_000), the parser of the plugin.  A line may carry  *)
(* the optional fields cwd and slug of the entry, model of its message body *)
(* and tools, the number of its content parts of kind "tool_use".           *)

\* model, title and cwd are undefined
EmptyStats ==
    [inputTokens |-> 0, cacheCreationTokens |-> 0, cacheReadTokens |-> 0,
     outputTokens |-> 0, messageCount |-> 0, toolCallCount |-> 0]

\* what one well-formed entry adds to the stats
StatEntry(stats, entry) ==
    LET body == entry.type = "assistant" /\ entry.message
        s1 == IF ~Has(stats, "cwd") /\ Has(entry, "cwd")
              THEN Put(stats, "cwd", entry.cwd) ELSE stats
        s2 == IF ~Has(s1, "title") /\ Has(entry, "slug")
              THEN Put(s1, "title", entry.slug) ELSE s1
        s3 == IF entry.type = "user"
              THEN [s2 EXCEPT !.messageCount = @ + 1] ELSE s2
        s4 == IF body /\ Has(entry, "model") /\ ~Has(s3, "model")
              THEN Put(s3, "model", entry.model) ELSE s3
        s5 == IF body
              THEN [s4 EXCEPT
                      !.inputTokens = @ + Get(entry.usage, "input_tokens", 0),
                      !.cacheCreationTokens =
                          @ + Get(entry.usage, "cache_creation_input_tokens", 0),
                      !.cacheReadTokens =
                          @ + Get(entry.usage, "cache_read_input_tokens", 0),
                      !.outputTokens = @ + Get(entry.usage, "output_tokens", 0),
                      !.toolCallCount = @ + Get(entry, "tools", 0)]
              ELSE s4
    IN  s5

\* the for loop over the lines, from line i on
RECURSIVE StatLines(_, _, _)
StatLines(lines, i, stats) ==
    IF i > Len(lines) THEN stats
    ELSE IF lines[i].type = "malformed" THEN StatLines(lines, i + 1, stats)
    ELSE StatLines(lines, i + 1, StatEntry(stats, lines[i]))

parseTranscript(file) ==
    IF ~file.exists THEN EmptyStats
    ELSE StatLines(file.lines, 1, EmptyStats)


----------------------------------------------------------------------------
(* MODEL_PRICING and calculateCost (part_000).  Model names are sequences   *)
(* of characters.  The rates of the table are kept in hundredths of a       *)
(* dollar per million tokens, so a cost is a whole number of 1/CostScale    *)
(* dollars: 18.00 dollars is 18 * CostScale.                                *)

PerMillion == 1000000
CostScale == 100 * PerMillion

KeySonnet4 ==
    <<"c", "l", "a", "u", "d", "e", "-", "s", "o", "n", "n", "e", "t", "-",
      "4", "-", "2", "0", "2", "5", "0", "5", "1", "4">>

KeyOpus4 ==
    <<"c", "l", "a", "u", "d", "e", "-", "o", "p", "u", "s", "-", "4", "-",
      "2", "0", "2", "5", "0", "5", "1", "4">>

KeyOpus45 ==
    <<"c", "l", "a", "u", "d", "e", "-", "o", "p", "u", "s", "-", "4", "-",
      "5", "-", "2", "0", "2", "5", "1", "1", "0", "1">>

KeySonnet35 ==
    <<"c", "l", "a", "u", "d", "e", "-", "3", "-", "5", "-", "s", "o", "n",
      "n", "e", "t", "-", "2", "0", "2", "4", "1", "0", "2", "2">>

KeyOpus3 ==
    <<"c", "l", "a", "u", "d", "e", "-", "3", "-", "o", "p", "u", "s", "-",
      "2", "0", "2", "4", "0", "2", "2", "9">>

KeyHaiku35 ==
    <<"c", "l", "a", "u", "d", "e", "-", "3", "-", "5", "-", "h", "a", "i",
      "k", "u", "-", "2", "0", "2", "4", "1", "0", "2", "2">>

\* the table, in the order of its keys
MODEL_PRICING ==
    << [key |-> KeySonnet4, input |-> 300, output |-> 1500, cacheWrite |-> 375,
        cacheRead |-> 30],
       [key |-> KeyOpus4, input |-> 1500, output |-> 7500, cacheWrite |-> 1875,
        cacheRead |-> 150],
       [key |-> KeyOpus45, input |-> 1500, output |-> 7500, cacheWrite |-> 1875,
        cacheRead |-> 150],
       [key |-> KeySonnet35, input |-> 300, output |-> 1500, cacheWrite |-> 375,
        cacheRead |-> 30],
       [key |-> KeyOpus3, input |-> 1500, output |-> 7500, cacheWrite |-> 1875,
        cacheRead |-> 150],
       [key |-> KeyHaiku35, input |-> 80, output |-> 400, cacheWrite |-> 100,
        cacheRead |-> 8] >>

\* String.prototype.includes
Includes(str, part) ==
    \E i \in 0..(Len(str) - Len(part)) : SubSeq(str, i + 1, i + Len(part)) = part

\* MODEL_PRICING[model]: 0 when the table has no such key
ExactEntry(model) ==
    LET I == {i \in 1..Len(MODEL_PRICING) : MODEL_PRICING[i].key = model}
    IN  IF I = {} THEN 0 ELSE CHOOSE i \in I : TRUE

\* Object.keys(MODEL_PRICING).find(...), from key i on: 0 when none matches
RECURSIVE FindMatchingKey(_, _)
FindMatchingKey(model, i) ==
    IF i > Len(MODEL_PRICING) THEN 0
    ELSE IF Includes(model, MODEL_PRICING[i].key)
            \/ Includes(MODEL_PRICING[i].key, model)
    THEN i
    ELSE FindMatchingKey(model, i + 1)

\* a variant that looks the model up by exact match only
calculateCostExact(model, stats) ==
    IF ~model.defined \/ model.value = <<>> THEN 0
    ELSE LET entry == ExactEntry(model.value)
         IN  IF entry = 0 THEN 0
             ELSE stats.inputTokens * MODEL_PRICING[entry].input
                  + stats.cacheCreationTokens * MODEL_PRICING[entry].cacheWrite
                  + stats.cacheReadTokens * MODEL_PRICING[entry].cacheRead
                  + stats.outputTokens * MODEL_PRICING[entry].output

\* model: [defined, value]; the result is in 1/CostScale dollars
calculateCost(model, stats) ==
    IF ~model.defined \/ model.value = <<>> THEN 0
    ELSE LET exact == ExactEntry(model.value)
             entry == IF exact # 0 THEN exact
                      ELSE FindMatchingKey(model.value, 1)
         IN  IF entry = 0 THEN 0
             ELSE LET pricing == MODEL_PRICING[entry]
                      inputCost == stats.inputTokens * pricing.input
                      cacheWriteCost == stats.cacheCreationTokens * pricing.cacheWrite
                      cacheReadCost == stats.cacheReadTokens * pricing.cacheRead
                      outputCost == stats.outputTokens * pricing.output
                  IN  inputCost + cacheWriteCost + cacheReadCost + outputCost

----------------------------------------------------------------------------
(* SyncClient (part_000): one call per record.  The n-th collector call of  *)
(* an invocation fails when n = failAt (0: none fails); request() then      *)
(* throws and syncSession/syncMessage log and re-throw.                     *)

FreshId == "fresh"   \* an identifier built from Date.now()

CallOk(calls, failAt) == Len(calls) + 1 # failAt

syncSession(session, ok) == [kind |-> "session", rec |-> session, ok |-> ok]

syncMessage(message, ok) == [kind |-> "message", rec |-> message, ok |-> ok]

\* what a handler did: the state file as last saved, the collector calls it
\* issued in order, and whether an exception left the switch
Outcome(saved, calls, threw) == [store |-> saved, calls |-> calls, threw |-> threw]

ZeroUsage == [input |-> 0, output |-> 0]

----------------------------------------------------------------------------
(* SyncClient.transformSession and the body request() sends (part_000)      *)

\* a string field that is defined and not empty
TruthyString(o, f) == Has(o, f) /\ o[f] # ""

\* session.projectPath || session.cwd
ProjectPath(session) ==
    IF TruthyString(session, "projectPath") THEN session.projectPath
    ELSE Get(session, "cwd", "")

\* the payload object transformSession builds; a key whose value is undefined
\* (externalId of a record without sessionId) is left out, as JSON.stringify
\* leaves it out of the body
transformSession(session) ==
    LET p0  == PutOpt([source |-> session.source], "externalId",
                      Has(session, "sessionId"), Get(session, "sessionId", ""))
        p1  == IF Has(session, "title") THEN Put(p0, "title", session.title) ELSE p0
        p2  == IF TruthyString(session, "projectPath") \/ TruthyString(session, "cwd")
               THEN Put(p1, "projectPath", ProjectPath(session)) ELSE p1
        p3  == IF TruthyString(session, "projectName")
               THEN Put(p2, "projectName", session.projectName) ELSE p2
        p4  == IF TruthyString(session, "model")
               THEN Put(p3, "model", session.model) ELSE p3
        p5  == IF Has(session, "tokenUsage")
               THEN Put(Put(p4, "promptTokens", session.tokenUsage.input),
                        "completionTokens", session.tokenUsage.output)
               ELSE p4
        p6  == IF Has(session, "costEstimate")
               THEN Put(p5, "cost", session.costEstimate) ELSE p5
        p7  == IF Has(session, "messageCount")
               THEN Put(p6, "messageCount", session.messageCount) ELSE p6
        p8  == IF Has(session, "toolCallCount")
               THEN Put(p7, "toolCallCount", session.toolCallCount) ELSE p7
        p9  == IF TruthyString(session, "endReason")
               THEN Put(p8, "endReason", session.endReason) ELSE p8
    IN  IF TruthyString(session, "endedAt") /\ TruthyString(session, "startedAt")
        THEN Put(p9, "durationMs", <<session.startedAt, session.endedAt>>)
        ELSE p9

----------------------------------------------------------------------------
(* The event handlers of the hook command (cli.ts), as functions of the     *)
(* loaded state file st, the payload data and the failing call              *)

\* a variant that starts every handler from an empty accumulator
LoadAccumulatorFresh(st, sid) == EmptyObj
\* sessionState[data.session_id] || {}
LoadAccumulator(st, sid) == Get(st, sid, EmptyObj)

\* a variant that sets the model on the accumulator it finds
SessionStartRunMerging(st, data, failAt) ==
    LET sid   == data.session_id
        acc   == PutOpt(Get(st, sid, [tokenUsage |-> ZeroUsage, messageCount |-> 0]),
                        "model", Has(data, "model"), Get(data, "model", ""))
        session == PutOpt([sessionId |-> sid, source |-> "claude-code",
                           startedAt |-> "now"],
                          "model", Has(data, "model"), Get(data, "model", ""))
        ok    == CallOk(<<>>, failAt)
    IN  Outcome(Put(st, sid, acc), <<syncSession(session, ok)>>, ~ok)

SessionStartRun(st, data, failAt) ==
    LET sid   == data.session_id
        acc   == PutOpt([tokenUsage |-> ZeroUsage, messageCount |-> 0],
                        "model", Has(data, "model"), Get(data, "model", ""))
        saved == Put(st, sid, acc)
        session == PutOpt([sessionId |-> sid, source |-> "claude-code",
                           startedAt |-> "now"],
                          "model", Has(data, "model"), Get(data, "model", ""))
        ok    == CallOk(<<>>, failAt)
    IN  Outcome(saved, <<syncSession(session, ok)>>, ~ok)

\* data.message_count || state.messageCount
EndMessageCount(data, state) ==
    IF Has(data, "message_count") /\ data.message_count # 0
    THEN [defined |-> TRUE, value |-> data.message_count]
    ELSE [defined |-> Has(state, "messageCount"),
          value |-> Get(state, "messageCount", 0)]

\* data.total_token_usage || state.tokenUsage
EndTokenUsage(data, state) ==
    IF Has(data, "total_token_usage")
    THEN [defined |-> TRUE, value |-> data.total_token_usage]
    ELSE [defined |-> Has(state, "tokenUsage"),
          value |-> Get(state, "tokenUsage", ZeroUsage)]

\* a string field is truthy when defined and non-empty
Truthy(o, f) == Has(o, f) /\ o[f] # <<>>

\* a variant that empties the store
SessionEndRunClearing(st, data, failAt) ==
    LET sid   == data.session_id
        state == LoadAccumulator(st, sid)
        mc    == EndMessageCount(data, state)
        tu    == EndTokenUsage(data, state)
        s0    == [sessionId |-> sid, source |-> "claude-code", endedAt |-> "now"]
        s1    == PutOpt(s0, "title", Truthy(state, "firstPrompt"),
                        generateTitle(Get(state, "firstPrompt", <<>>)))
        s2    == PutOpt(s1, "messageCount", mc.defined, mc.value)
        session == PutOpt(s2, "tokenUsage", tu.defined, tu.value)
        ok    == CallOk(<<>>, failAt)
    IN  IF ok
        THEN Outcome(EmptyObj, <<syncSession(session, ok)>>, FALSE)
        ELSE Outcome(st, <<syncSession(session, ok)>>, TRUE)

\* a variant that leaves the accumulator in the store
SessionEndRunKeeping(st, data, failAt) ==
    LET sid   == data.session_id
        state == LoadAccumulator(st, sid)
        mc    == EndMessageCount(data, state)
        tu    == EndTokenUsage(data, state)
        s0    == [sessionId |-> sid, source |-> "claude-code", endedAt |-> "now"]
        s1    == PutOpt(s0, "title", Truthy(state, "firstPrompt"),
                        generateTitle(Get(state, "firstPrompt", <<>>)))
        s2    == PutOpt(s1, "messageCount", mc.defined, mc.value)
        session == PutOpt(s2, "tokenUsage", tu.defined, tu.value)
        ok    == CallOk(<<>>, failAt)
    IN  Outcome(st, <<syncSession(session, ok)>>, ~ok)

SessionEndRun(st, data, failAt) ==
    LET sid   == data.session_id
        state == LoadAccumulator(st, sid)
        mc    == EndMessageCount(data, state)
        tu    == EndTokenUsage(data, state)
        s0    == [sessionId |-> sid, source |-> "claude-code", endedAt |-> "now"]
        s1    == PutOpt(s0, "title", Truthy(state, "firstPrompt"),
                        generateTitle(Get(state, "firstPrompt", <<>>)))
        s2    == PutOpt(s1, "messageCount", mc.defined, mc.value)
        session == PutOpt(s2, "tokenUsage", tu.defined, tu.value)
        ok    == CallOk(<<>>, failAt)
    IN  IF ok
        THEN Outcome(Del(st, sid), <<syncSession(session, ok)>>, FALSE)
        ELSE Outcome(st, <<syncSession(session, ok)>>, TRUE)

\* a variant that counts every message twice
IncrementCountTwice(state) ==
    Put(state, "messageCount", Get(state, "messageCount", 0) + 2)
\* state.messageCount = (state.messageCount || 0) + 1
IncrementCount(state) ==
    Put(state, "messageCount", Get(state, "messageCount", 0) + 1)

\* a variant that takes the parsed total even when it is zero
UpdateTokenUsageAlways(state, usage) == Put(state, "tokenUsage", usage)
\* the Stop handler takes the parsed total only when one of its counts is positive
UpdateTokenUsage(state, usage) ==
    IF usage.input > 0 \/ usage.output > 0
    THEN Put(state, "tokenUsage", usage)
    ELSE state

UserPromptSubmitRun(st, data, failAt) ==
    LET sid    == data.session_id
        state0 == LoadAccumulator(st, sid)
        first  == ~Truthy(state0, "firstPrompt")
        state1 == IF first THEN Put(state0, "firstPrompt", data.prompt) ELSE state0
        saved1 == IF first THEN Put(st, sid, state1) ELSE st
        titleOk == CallOk(<<>>, failAt)
        calls1 == IF first
                  THEN <<syncSession([sessionId |-> sid, source |-> "claude-code",
                                      title |-> generateTitle(data.prompt)],
                                     titleOk)>>
                  ELSE <<>>
        state2 == IncrementCount(state1)
        saved2 == Put(saved1, sid, state2)
        msgOk  == CallOk(calls1, failAt)
        message == [sessionId |-> sid, messageId |-> FreshId, role |-> "user",
                    content |-> data.prompt]
    IN  IF first /\ ~titleOk
        THEN Outcome(saved1, calls1, TRUE)
        ELSE Outcome(saved2, Append(calls1, syncMessage(message, msgOk)), ~msgOk)

\* a variant that forwards the tool call whatever the configuration says
PostToolUseRunAlways(st, data, syncToolCalls, failAt) ==
    LET ok == CallOk(<<>>, failAt)
        message == [sessionId |-> data.session_id,
                    messageId |-> Get(data, "tool_use_id", FreshId),
                    role |-> "assistant", toolName |-> data.tool_name]
    IN  Outcome(st, <<syncMessage(message, ok)>>, ~ok)

PostToolUseRun(st, data, syncToolCalls, failAt) ==
    LET sid == data.session_id
        ok  == CallOk(<<>>, failAt)
        message == [sessionId |-> sid,
                    messageId |-> Get(data, "tool_use_id", FreshId),
                    role |-> "assistant", toolName |-> data.tool_name]
    IN  IF ~syncToolCalls
        THEN Outcome(st, <<>>, FALSE)
        ELSE Outcome(st, <<syncMessage(message, ok)>>, ~ok)

\* a variant of the loop that issues each call ahead of the earlier ones
RECURSIVE SyncNewMessagesReordered(_, _, _, _, _, _, _)
SyncNewMessagesReordered(sid, msgs, i, state, syncedMessages, calls, failAt) ==
    IF i > Len(msgs)
    THEN [state |-> state, synced |-> syncedMessages, calls |-> calls, threw |-> FALSE]
    ELSE LET msg == msgs[i]
         IN  IF msg.uuid # NoUuid /\ msg.uuid \in syncedMessages
             THEN SyncNewMessagesReordered(sid, msgs, i + 1, state, syncedMessages,
                                           calls, failAt)
             ELSE LET synced1 == IF msg.uuid # NoUuid
                                 THEN syncedMessages \cup {msg.uuid}
                                 ELSE syncedMessages
                      state1  == IncrementCount(state)
                      ok      == CallOk(calls, failAt)
                      message == [sessionId |-> sid,
                                  messageId |-> IF msg.uuid # NoUuid THEN msg.uuid
                                                                     ELSE FreshId,
                                  role |-> "assistant", content |-> msg.text]
                      calls1  == <<syncMessage(message, ok)>> \o calls
                  IN  IF ok
                      THEN SyncNewMessagesReordered(sid, msgs, i + 1, state1, synced1,
                                                    calls1, failAt)
                      ELSE [state |-> state1, synced |-> synced1,
                            calls |-> Append(calls, syncMessage(message, ok)),
                            threw |-> TRUE]

\* the loop over transcript.assistantMessages of the Stop handler, from
\* message i on; state and syncedMessages are the in-memory values
RECURSIVE SyncNewMessages(_, _, _, _, _, _, _)
SyncNewMessages(sid, msgs, i, state, syncedMessages, calls, failAt) ==
    IF i > Len(msgs)
    THEN [state |-> state, synced |-> syncedMessages, calls |-> calls, threw |-> FALSE]
    ELSE LET msg == msgs[i]
         IN  IF msg.uuid # NoUuid /\ msg.uuid \in syncedMessages
             THEN SyncNewMessages(sid, msgs, i + 1, state, syncedMessages, calls, failAt)
             ELSE LET synced1 == IF msg.uuid # NoUuid
                                 THEN syncedMessages \cup {msg.uuid}
                                 ELSE syncedMessages
                      state1  == IncrementCount(state)
                      ok      == CallOk(calls, failAt)
                      message == [sessionId |-> sid,
                                  messageId |-> IF msg.uuid # NoUuid THEN msg.uuid
                                                                     ELSE FreshId,
                                  role |-> "assistant", content |-> msg.text]
                      calls1  == Append(calls, syncMessage(message, ok))
                  IN  IF ok
                      THEN SyncNewMessages(sid, msgs, i + 1, state1, synced1,
                                           calls1, failAt)
                      ELSE [state |-> state1, synced |-> synced1,
                            calls |-> calls1, threw |-> TRUE]

\* data.transcript_path is absent ("none"), names no file ("missing") or
\* names the session's transcript ("file")
StopRun(st, data, lines, failAt) ==
    LET sid     == data.session_id
        state0  == LoadAccumulator(st, sid)
        hasPath == data.transcript_path # "none"
        parsed  == parseTranscriptFile([exists |-> data.transcript_path = "file",
                                        lines |-> lines])
        state1  == UpdateTokenUsage(state0, parsed.tokenUsage)
        loop    == SyncNewMessages(sid, parsed.assistantMessages, 1, state1,
                                   Get(state0, "syncedMessageUuids", {}), <<>>, failAt)
        state2  == IF hasPath
                   THEN Put(loop.state, "syncedMessageUuids", loop.synced)
                   ELSE state0
        calls2  == IF hasPath THEN loop.calls ELSE <<>>
        saved   == Put(st, sid, state2)
        s1      == PutOpt([sessionId |-> sid, source |-> "claude-code"],
                          "tokenUsage", Has(state2, "tokenUsage"),
                          Get(state2, "tokenUsage", ZeroUsage))
        session == PutOpt(s1, "messageCount", Has(state2, "messageCount"),
                          Get(state2, "messageCount", 0))
        ok      == CallOk(calls2, failAt)
    IN  IF hasPath /\ loop.threw
        THEN Outcome(st, loop.calls, TRUE)
        ELSE Outcome(saved, Append(calls2, syncSession(session, ok)), ~ok)

\* a variant whose catch exits with status 1
HookExitFailing(threw) == [exit |-> IF threw THEN 1 ELSE 0, logged |-> threw]
\* the top-level try/catch: both paths end in process.exit(0); the catch logs
HookExit(threw) == [exit |-> 0, logged |-> threw]


----------------------------------------------------------------------------
(* State machine: one step is one hook invocation, or the host appending a  *)
(* line to a transcript                                                     *)

NoInvocation ==
    [event |-> "none", input |-> EmptyObj, calls |-> <<>>,
     threw |-> FALSE, exit |-> 0, logged |-> FALSE]

Invocation(event, data, out) ==
    [event |-> event, input |-> data, calls |-> out.calls,
     threw |-> out.threw, exit |-> HookExit(out.threw).exit,
     logged |-> HookExit(out.threw).logged]

Init ==
    /\ store = EmptyObj
    /\ transcript = [s \in Sessions |-> <<>>]
    /\ delivered = [s \in Sessions |-> {}]
    /\ last = NoInvocation

messageCountOf(st, s) == Get(Get(st, s, EmptyObj), "messageCount", 0)

\* the entry ids of the assistant Messages the collector accepted in these calls
Accepted(calls) ==
    {calls[i].rec.messageId : i \in {j \in 1..Len(calls) :
        /\ calls[j].kind = "message"
        /\ calls[j].ok
        /\ calls[j].rec.role = "assistant"
        /\ calls[j].rec.messageId \in Uuids}}

Deliver(s, calls) == [delivered EXCEPT ![s] = @ \cup Accepted(calls)]

\* every position of the failing call that the invocation can reach
FailPoints(calls) == 0..Len(calls)

\* the host appends one line to the session's transcript
AppendLine(s) ==
    /\ Len(transcript[s]) < MaxLines
    /\ \E l \in Lines : transcript' = [transcript EXCEPT ![s] = Append(@, l)]
    /\ last' = NoInvocation
    /\ UNCHANGED <<store, delivered>>

SessionStart(s) ==
    \E m \in Models \cup {"undefined"} :
      LET data == PutOpt([session_id |-> s], "model", m # "undefined", m)
      IN  \E failAt \in FailPoints(SessionStartRun(store, data, 0).calls) :
            LET out == SessionStartRun(store, data, failAt)
            IN  /\ store' = out.store
                /\ last' = Invocation("SessionStart", data, out)
                /\ UNCHANGED <<transcript, delivered>>

\* SessionEnd payloads: no counts, a zero message count, and counts with a
\* total token usage
EndPayloads(s) ==
    { [session_id |-> s],
      [session_id |-> s, message_count |-> 0],
      [session_id |-> s, message_count |-> 7,
       total_token_usage |-> [input |-> 9, output |-> 4]] }

SessionEnd(s) ==
    \E data \in EndPayloads(s) :
      \E failAt \in FailPoints(SessionEndRun(store, data, 0).calls) :
        LET out == SessionEndRun(store, data, failAt)
        IN  /\ store' = out.store
            /\ last' = Invocation("SessionEnd", data, out)
            /\ UNCHANGED <<transcript, delivered>>

\* a prompt event is either new, or the re-sending of the event whose
\* invocation just failed
IsResend(s, p) ==
    /\ last.event = "UserPromptSubmit"
    /\ last.threw
    /\ Has(last.input, "prompt")
    /\ last.input.session_id = s
    /\ last.input.prompt = p

UserPromptSubmit(s) ==
    \E p \in Prompts, resend \in BOOLEAN :
      LET data == [session_id |-> s, prompt |-> p]
      IN  /\ resend => IsResend(s, p)
          /\ messageCountOf(store, s) < MaxCount
          /\ \E failAt \in FailPoints(UserPromptSubmitRun(store, data, 0).calls) :
               LET out == UserPromptSubmitRun(store, data, failAt)
               IN  /\ store' = out.store
                   /\ last' = Invocation("UserPromptSubmit",
                                         Put(data, "resend", resend), out)
                   /\ UNCHANGED <<transcript, delivered>>

PostToolUse(s) ==
    \E syncToolCalls \in BOOLEAN :
      LET data == [session_id |-> s, tool_name |-> "Bash", tool_use_id |-> "t1"]
      IN  \E failAt \in FailPoints(PostToolUseRun(store, data, syncToolCalls, 0).calls) :
            LET out == PostToolUseRun(store, data, syncToolCalls, failAt)
            IN  /\ store' = out.store
                /\ last' = Invocation("PostToolUse",
                                      IF syncToolCalls THEN data ELSE EmptyObj, out)
                /\ UNCHANGED <<transcript, delivered>>

Stop(s) ==
    \E path \in {"none", "missing", "file"} :
      LET data == [session_id |-> s, transcript_path |-> path]
      IN  \E failAt \in FailPoints(StopRun(store, data, transcript[s], 0).calls) :
            LET out == StopRun(store, data, transcript[s], failAt)
            IN  /\ messageCountOf(out.store, s) <= MaxCount
                /\ store' = out.store
                /\ last' = Invocation("Stop", data, out)
                /\ delivered' = Deliver(s, out.calls)
                /\ UNCHANGED transcript

\* default: an event name the switch does not know
UnknownEvent(s) ==
    /\ last' = Invocation("Unknown", [session_id |-> s], Outcome(store, <<>>, FALSE))
    /\ UNCHANGED <<store, transcript, delivered>>

\* a payload JSON.parse rejects, for any of the five known events: the
\* handler throws before it does anything
BadPayload(s) ==
    /\ last' = Invocation("BadPayload", EmptyObj, Outcome(store, <<>>, TRUE))
    /\ UNCHANGED <<store, transcript, delivered>>

Next ==
    \E s \in Sessions :
      \/ AppendLine(s)
      \/ SessionStart(s)
      \/ SessionEnd(s)
      \/ UserPromptSubmit(s)
      \/ PostToolUse(s)
      \/ Stop(s)
      \/ UnknownEvent(s)
      \/ BadPayload(s)

Spec == Init /\ [][Next]_vars

----------------------------------------------------------------------------
(* generateTitle on its own: prompts of the lengths around the title window *)
(* with up to two spaces at the positions around its limits                 *)

PromptLens ==
    {0, 1, TitleMinBreak, TitleWindow - 1, TitleWindow, TitleWindow + 1,
     MaxPromptLen}

SpacePositions ==
    {1, 2, TitleMinBreak - 1, TitleMinBreak, TitleMinBreak + 1,
     TitleMinBreak + 2, TitleMinBreak + 5, TitleMinBreak + 6,
     TitleWindow - 1, TitleWindow, TitleWindow + 1}

\* the prompt of this length with a space at these positions, counted from 1
SpacedPrompt(len, spaces) == [i \in 1..len |-> IF i \in spaces THEN " " ELSE "a"]

TitlePrompts ==
    {SpacedPrompt(len, spaces) :
        len \in PromptLens,
        spaces \in {X \in SUBSET SpacePositions : Cardinality(X) <= 2}}

TitleInit ==
    /\ store = EmptyObj
    /\ transcript = [s \in Sessions |-> <<>>]
    /\ delivered = [s \in Sessions |-> {}]
    /\ last \in {[NoInvocation EXCEPT !.input = [prompt |-> p]] : p \in TitlePrompts}

GenerateTitle ==
    /\ last.event = "none"
    /\ last' = [event |-> "generateTitle", input |-> last.input,
                result |-> generateTitle(last.input.prompt)]
    /\ UNCHANGED <<store, transcript, delivered>>

TitleNext == GenerateTitle

TitleSpec == TitleInit /\ [][TitleNext]_vars

----------------------------------------------------------------------------
(* calculateCost on its own: models that are a key, a part of one or of     *)
(* several keys, a key with a suffix, no model and an unknown model, with   *)
(* every combination of 0, 1 and MaxTokens tokens in the four classes       *)

Undefined == [defined |-> FALSE, value |-> <<>>]
Defined(v) == [defined |-> TRUE, value |-> v]

CostModels ==
    { Undefined,
      Defined(<<>>),
      Defined(KeySonnet4),
      Defined(KeyOpus45),
      Defined(KeyHaiku35),
      Defined(KeyOpus4 \o <<"[", "1", "m", "]">>),
      Defined(<<"c", "l", "a", "u", "d", "e", "-", "3", "-", "5">>),
      Defined(<<"h", "a", "i", "k", "u">>),
      Defined(<<"2", "0", "2", "4">>),
      Defined(<<"g", "p", "t", "-", "4">>) }

TokenCounts == {0, 1, MaxTokens}

CostStats ==
    [inputTokens : TokenCounts, cacheCreationTokens : TokenCounts,
     cacheReadTokens : TokenCounts, outputTokens : TokenCounts]

\* the usage of one million input and one million output tokens
MillionStats ==
    [inputTokens |-> PerMillion, cacheCreationTokens |-> 0,
     cacheReadTokens |-> 0, outputTokens |-> PerMillion]

CostInputs ==
    {[model |-> m, stats |-> st] : m \in CostModels, st \in CostStats}
    \cup {[model |-> Defined(KeySonnet4), stats |-> MillionStats]}

CostInit ==
    /\ store = EmptyObj
    /\ transcript = [s \in Sessions |-> <<>>]
    /\ delivered = [s \in Sessions |-> {}]
    /\ last \in {[NoInvocation EXCEPT !.input = in] : in \in CostInputs}

CalculateCost ==
    /\ last.event = "none"
    /\ last' = [event |-> "calculateCost", input |-> last.input,
                result |-> calculateCost(last.input.model, last.input.stats)]
    /\ UNCHANGED <<store, transcript, delivered>>

CostNext == CalculateCost

CostSpec == CostInit /\ [][CostNext]_vars

----------------------------------------------------------------------------
(* The transcript parser on its own: every transcript of up to             *)
(* MaxParseLines lines drawn from ParseInputs, parsed once                  *)

\* assistant entries under either uuid and under none, with 0, 1 or 2 text
\* parts, with a full usage block, one that lacks counters and none; an
\* assistant entry without message body; a user entry that has a usage
\* block; a line that is not JSON; an assistant entry with a tool call
\* that names its model, slug and cwd
ParseInputs ==
    { AssistantLine("u1", 1),
      Line("assistant", "u1", TRUE, 2, [input_tokens |-> 5, output_tokens |-> 3]),
      Line("assistant", "u1", TRUE, 0, [cache_read_input_tokens |-> 7]),
      Line("assistant", "u2", TRUE, 1, EmptyObj),
      Line("assistant", NoUuid, TRUE, 1, [output_tokens |-> 2]),
      Line("assistant", "u2", FALSE, 0, EmptyObj),
      Line("user", "u2", TRUE, 1, Usage),
      MalformedLine,
      [type |-> "assistant", uuid |-> "u2", message |-> TRUE, texts |-> 1,
       usage |-> [input_tokens |-> 4, cache_creation_input_tokens |-> 6],
       model |-> "claude-sonnet-4-20250514", slug |-> "fix-bug",
       cwd |-> "/work", tools |-> 1] }

SeqsUpTo(S, n) == UNION {[1..k -> S] : k \in 0..n}

ParseInit ==
    /\ store = EmptyObj
    /\ transcript \in [Sessions -> SeqsUpTo(ParseInputs, MaxParseLines)]
    /\ delivered = [s \in Sessions |-> {}]
    /\ last = NoInvocation

\* parseTranscriptFile is called on the path of the transcript, or on a
\* path that names no file
ParseFile(s) ==
    /\ last.event = "none"
    /\ \E exists \in BOOLEAN :
         LET file == [exists |-> exists, lines |-> transcript[s]]
         IN  last' = [event |-> "parseTranscriptFile", input |-> file,
                      result |-> parseTranscriptFile(file)]
    /\ UNCHANGED <<store, transcript, delivered>>

\* parseTranscript is called on the same paths
ParseStats(s) ==
    /\ last.event = "none"
    /\ \E exists \in BOOLEAN :
         LET file == [exists |-> exists, lines |-> transcript[s]]
         IN  last' = [event |-> "parseTranscript", input |-> file,
                      stats |-> parseTranscript(file)]
    /\ UNCHANGED <<store, transcript, delivered>>

ParseNext == \E s \in Sessions : ParseFile(s) \/ ParseStats(s)

ParseSpec == ParseInit /\ [][ParseNext]_vars


----------------------------------------------------------------------------
(* The state file and one whole invocation of the hook command (cli.ts).    *)
(* A file is [status, content]: content is the JSON object it holds, a      *)
(* record per session id with syncedMessageUuids as an array; status tells  *)
(* whether it exists, can be read and can be parsed.                        *)

OtherSession == "S2"
\* a state file that holds the empty object
EmptyFile == [status |-> "ok", content |-> EmptyObj]
\* data.session_id of a payload without the field: undefined, which is the
\* key "undefined" when it indexes the store
NoSessionId == "undefined"

Range(seq) == {seq[i] : i \in 1..Len(seq)}

\* new Set(array) for every record of the parsed file; {} when the file is
\* absent or readFileSync or JSON.parse throws
loadSessionStateUnchecked(file) ==
    [sid \in DOMAIN file.content |->
        IF Has(file.content[sid], "syncedMessageUuids")
        THEN Put(file.content[sid], "syncedMessageUuids",
                 Range(file.content[sid].syncedMessageUuids))
        ELSE file.content[sid]]

loadSessionState(file) ==
    IF file.status # "ok"
    THEN EmptyObj
    ELSE [sid \in DOMAIN file.content |->
            IF Has(file.content[sid], "syncedMessageUuids")
            THEN Put(file.content[sid], "syncedMessageUuids",
                     Range(file.content[sid].syncedMessageUuids))
            ELSE file.content[sid]]

\* Array.from(set): a Set keeps insertion order, so the array is the one the
\* Set was loaded from, followed by the members added since, in the order
\* the invocation met them
RECURSIVE ArrayFrom(_, _, _)
ArrayFrom(set, arr, order) ==
    IF order = <<>> THEN arr
    ELSE LET u == Head(order)
         IN  ArrayFrom(set,
                       IF u \in set /\ u \notin Range(arr) THEN Append(arr, u) ELSE arr,
                       Tail(order))

\* the array a record of the file holds
StoredArray(file, sid) ==
    IF file.status = "ok" /\ Has(file.content, sid)
    THEN Get(file.content[sid], "syncedMessageUuids", <<>>)
    ELSE <<>>

KnownFields ==
    {"model", "firstPrompt", "tokenUsage", "messageCount", "syncedMessageUuids"}

\* a variant that writes the fields of the SessionState interface only
saveSessionStateKnownFields(state, file, order) ==
    [status |-> "ok",
     content |->
       [sid \in DOMAIN state |->
          LET session == [f \in (DOMAIN state[sid]) \cap KnownFields |-> state[sid][f]]
          IN  IF Has(session, "syncedMessageUuids")
              THEN Put(session, "syncedMessageUuids",
                       ArrayFrom(session.syncedMessageUuids,
                                 StoredArray(file, sid), order))
              ELSE session]]

\* the file after saveSessionState(state): every record spread, its Set
\* written as an array
saveSessionState(state, file, order) ==
    [status |-> "ok",
     content |->
       [sid \in DOMAIN state |->
          LET session == state[sid]
          IN  IF Has(session, "syncedMessageUuids")
              THEN Put(session, "syncedMessageUuids",
                       ArrayFrom(session.syncedMessageUuids,
                                 StoredArray(file, sid), order))
              ELSE session]]

KnownEvents ==
    {"SessionStart", "SessionEnd", "UserPromptSubmit", "PostToolUse", "Stop"}
\* an event name the switch has no case for
OtherEvent == "Notification"

\* a variant whose default case initializes the session
HandleEventDefaulting(event, st, data, lines, syncToolCalls, failAt) ==
    CASE event = "SessionEnd" -> SessionEndRun(st, data, failAt)
      [] event = "UserPromptSubmit" -> UserPromptSubmitRun(st, data, failAt)
      [] event = "PostToolUse" -> PostToolUseRun(st, data, syncToolCalls, failAt)
      [] event = "Stop" -> StopRun(st, data, lines, failAt)
      [] OTHER -> SessionStartRun(st, data, failAt)

\* switch (event)
HandleEvent(event, st, data, lines, syncToolCalls, failAt) ==
    CASE event = "SessionStart" -> SessionStartRun(st, data, failAt)
      [] event = "SessionEnd" -> SessionEndRun(st, data, failAt)
      [] event = "UserPromptSubmit" -> UserPromptSubmitRun(st, data, failAt)
      [] event = "PostToolUse" -> PostToolUseRun(st, data, syncToolCalls, failAt)
      [] event = "Stop" -> StopRun(st, data, lines, failAt)
      [] OTHER -> Outcome(st, <<>>, FALSE)

\* whether the handler reached a call of saveSessionState: SessionStart and
\* UserPromptSubmit save before their first collector call, SessionEnd saves
\* after its call, Stop after its loop; PostToolUse and the default never do
Saved(event, out) ==
    CASE event = "SessionStart" -> TRUE
      [] event = "UserPromptSubmit" -> TRUE
      [] event = "SessionEnd" -> ~out.threw
      [] event = "Stop" -> \E i \in 1..Len(out.calls) : out.calls[i].kind = "session"
      [] OTHER -> FALSE

\* the number of calls of saveSessionState the handler reached: a
\* UserPromptSubmit that sets firstPrompt saves once before the title call
\* and, when that call returns, once more after counting the message
SaveCount(event, st, data, out) ==
    IF ~Saved(event, out) THEN 0
    ELSE IF /\ event = "UserPromptSubmit"
            /\ ~Truthy(LoadAccumulator(st, data.session_id), "firstPrompt")
            /\ Len(out.calls) = 2
    THEN 2
    ELSE 1

\* the order in which a Stop adds uuids to the Set
AddedOrder(event, data, lines) ==
    IF event = "Stop" /\ data.transcript_path = "file"
    THEN LET msgs == parseTranscriptFile([exists |-> TRUE, lines |-> lines]).assistantMessages
         IN  [i \in 1..Len(msgs) |-> msgs[i].uuid]
    ELSE <<>>

\* JSON.stringify leaves out a field whose value is undefined
Stringify(call) ==
    IF call.rec.sessionId = NoSessionId
    THEN [call EXCEPT !.rec = Del(@, "sessionId")]
    ELSE call

\* the action of the hook command from loadSessionState on; writable tells
\* whether writeFileSync succeeds (saveSessionState ignores its failure)
HookRun(event, file, data, lines, syncToolCalls, failAt, writable) ==
    LET sessionState == loadSessionState(file)
        out == HandleEvent(event, sessionState, data, lines, syncToolCalls, failAt)
        written == IF Saved(event, out) /\ writable
                   THEN saveSessionState(out.store, file, AddedOrder(event, data, lines))
                   ELSE file
    IN  [file |-> written,
         out |-> [out EXCEPT !.calls = [i \in 1..Len(out.calls) |-> Stringify(out.calls[i])]]]

\* records a state file holds: a fresh accumulator, one in use, and one
\* written by a version that keeps a field this one does not know
StoredRecords ==
    { [tokenUsage |-> ZeroUsage, messageCount |-> 0],
      [model |-> "claude-sonnet-4-20250514", firstPrompt |-> <<"f","i","x">>,
       tokenUsage |-> [input |-> 100, output |-> 50], messageCount |-> 1,
       syncedMessageUuids |-> <<"u2">>],
      [firstPrompt |-> <<"f","i","x">>,
       tokenUsage |-> [input |-> 100, output |-> 50], messageCount |-> 1,
       syncedMessageUuids |-> <<"u2">>, pinned |-> TRUE] }

StoreContents ==
    UNION {[ids -> StoredRecords] : ids \in SUBSET (Sessions \cup {OtherSession})}

StoreFiles ==
    {[status |-> "ok", content |-> c] : c \in StoreContents}
    \cup {[status |-> "unreadable", content |-> c] : c \in StoreContents}
    \cup {[status |-> st, content |-> EmptyObj] : st \in {"absent", "corrupt"}}

StoreTranscripts ==
    { <<>>,
      <<AssistantLine("u1", 1)>>,
      <<AssistantLine("u1", 1), UserLine, AssistantLine("u2", 1)>> }

\* the payloads of an event for a session id
Payloads(event, sid) ==
    CASE event = "SessionStart" ->
           {[session_id |-> sid],
            [session_id |-> sid, model |-> "claude-sonnet-4-20250514"]}
      [] event = "SessionEnd" -> EndPayloads(sid)
      [] event = "UserPromptSubmit" -> {[session_id |-> sid, prompt |-> p] : p \in Prompts}
      [] event = "PostToolUse" ->
           {[session_id |-> sid, tool_name |-> "Bash", tool_use_id |-> "t1"]}
      [] event = "Stop" ->
           {[session_id |-> sid, transcript_path |-> path] :
              path \in {"none", "missing", "file"}}
      [] OTHER -> {[session_id |-> sid]}

StoreInit ==
    /\ store \in StoreFiles
    /\ transcript \in [Sessions -> StoreTranscripts]
    /\ delivered = [s \in Sessions |-> {}]
    /\ last = NoInvocation

\* one invocation of `hook <event>` on the state file
Hook(event, sid) ==
    /\ last.event = "none"
    /\ \E data \in Payloads(event, sid), syncToolCalls \in BOOLEAN, writable \in BOOLEAN :
         LET lines == transcript[CHOOSE s \in Sessions : TRUE]
         IN  \E failAt \in FailPoints(HookRun(event, store, data, lines,
                                              syncToolCalls, 0, writable).out.calls) :
               LET run == HookRun(event, store, data, lines, syncToolCalls,
                                  failAt, writable)
               IN  /\ store' = run.file
                   /\ last' = [event |-> event, input |-> data,
                               calls |-> run.out.calls, threw |-> run.out.threw,
                               exit |-> HookExit(run.out.threw).exit,
                               logged |-> HookExit(run.out.threw).logged,
                               syncToolCalls |-> syncToolCalls,
                               failAt |-> failAt, writable |-> writable,
                               loaded |-> store.status]
                   /\ UNCHANGED <<transcript, delivered>>

StoreNext ==
    \E event \in KnownEvents \cup {OtherEvent}, sid \in Sessions \cup {NoSessionId} :
      Hook(event, sid)

StoreSpec == StoreInit /\ [][StoreNext]_vars

----------------------------------------------------------------------------
(* The whole `hook <event>` command (cli.ts), guards included.  A config is *)
(* [exists, settings]: loadConfig gives null when exists is FALSE; stdin is *)
(* [text, data]: the characters read and the payload they parse to.         *)

Configs ==
    { [exists |-> FALSE, settings |-> EmptyObj],
      [exists |-> TRUE, settings |-> EmptyObj],
      [exists |-> TRUE, settings |-> [autoSync |-> FALSE, syncToolCalls |-> TRUE]],
      [exists |-> TRUE, settings |-> [autoSync |-> TRUE, syncToolCalls |-> TRUE]],
      [exists |-> TRUE, settings |-> [autoSync |-> TRUE, syncToolCalls |-> FALSE]] }

\* what stdin holds: nothing, white space only, or a payload
Stdins(event, sid) ==
    {[text |-> t, data |-> [session_id |-> sid]] : t \in {<<>>, <<" ", "\n">>}}
    \cup {[text |-> <<"{", "}">>, data |-> d] : d \in Payloads(event, sid)}

\* the command left before the try block: nothing loaded, saved or sent
EarlyExit(file) ==
    [file |-> file, out |-> Outcome(EmptyObj, <<>>, FALSE), loaded |-> FALSE]

\* a variant without the test of autoSync
HookCommandAlways(event, config, stdin, file, lines, failAt, writable) ==
    IF ~config.exists \/ Trim(stdin.text) = <<>>
    THEN EarlyExit(file)
    ELSE HookRun(event, file, stdin.data, lines,
                 Get(config.settings, "syncToolCalls", FALSE), failAt, writable)
         @@ [loaded |-> TRUE]

HookCommand(event, config, stdin, file, lines, failAt, writable) ==
    IF ~config.exists THEN EarlyExit(file)
    ELSE IF Has(config.settings, "autoSync") /\ config.settings.autoSync = FALSE
    THEN EarlyExit(file)
    ELSE IF Trim(stdin.text) = <<>> THEN EarlyExit(file)
    ELSE HookRun(event, file, stdin.data, lines,
                 Get(config.settings, "syncToolCalls", FALSE), failAt, writable)
         @@ [loaded |-> TRUE]

CommandInit == StoreInit

Command(event, sid) ==
    /\ last.event = "none"
    /\ \E config \in Configs, stdin \in Stdins(event, sid), writable \in BOOLEAN :
         LET lines == transcript[CHOOSE s \in Sessions : TRUE]
         IN  \E failAt \in FailPoints(HookCommand(event, config, stdin, store, lines,
                                                  0, writable).out.calls) :
               LET run == HookCommand(event, config, stdin, store, lines,
                                      failAt, writable)
               IN  /\ store' = run.file
                   /\ last' = [event |-> event, input |-> stdin.data,
                               calls |-> run.out.calls, threw |-> run.out.threw,
                               exit |-> HookExit(run.out.threw).exit,
                               logged |-> HookExit(run.out.threw).logged,
                               config |-> config, stdin |-> stdin.text,
                               failAt |-> failAt, writable |-> writable,
                               loaded |-> run.loaded]
                   /\ UNCHANGED <<transcript, delivered>>

CommandNext ==
    \E event \in KnownEvents \cup {OtherEvent}, sid \in Sessions :
      Command(event, sid)

CommandSpec == CommandInit /\ [][CommandNext]_vars

----------------------------------------------------------------------------
(* Two invocations of the hook command racing on the state file.  Each is   *)
(* a process of its own: it loads the file when it starts and handles its   *)
(* event on what it loaded; nothing locks the file in between.  `last`      *)
(* holds the file the race started from, each process's position and what  *)
(* it loaded, and the order in which the processes saved.                   *)

Procs == {1, 2}

\* the file the handler works on when it saves: sessionState is loaded once,
\* when the invocation starts, and never read again
WorkingFileReloaded(held, current) == current
WorkingFile(held, current) == held

RaceFiles ==
    { EmptyFile,
      [status |-> "ok",
       content |-> [sid \in {"S1"} |->
                      [tokenUsage |-> ZeroUsage, messageCount |-> 0]]],
      [status |-> "ok",
       content |-> [sid \in {"S1", OtherSession} |->
                      [firstPrompt |-> <<"f","i","x">>,
                       tokenUsage |-> [input |-> 100, output |-> 50],
                       messageCount |-> 1, syncedMessageUuids |-> <<"u2">>]]] }

RacePayloads(event, sid) ==
    CASE event = "SessionEnd" -> {[session_id |-> sid]}
      [] event = "Stop" -> {[session_id |-> sid, transcript_path |-> "file"]}
      [] OTHER -> Payloads(event, sid)

IdleProc ==
    [pc |-> "idle", event |-> "none", input |-> EmptyObj, file |-> EmptyFile,
     calls |-> <<>>, saved |-> FALSE, failAt |-> 0, seen |-> 0]

RaceInit ==
    /\ store \in RaceFiles
    /\ transcript = [s \in Sessions |-> <<AssistantLine("u1", 1)>>]
    /\ delivered = [s \in Sessions |-> {}]
    /\ last = [event |-> "Race", initial |-> store,
               procs |-> [p \in Procs |-> IdleProc], savers |-> <<>>]

RaceLines == transcript[CHOOSE s \in Sessions : TRUE]

\* process p starts: it reads its payload and loads the state file
Begin(p) ==
    /\ last.procs[p].pc = "idle"
    /\ \E event \in KnownEvents, sid \in Sessions \cup {OtherSession} :
         \E data \in RacePayloads(event, sid) :
           last' = [last EXCEPT !.procs[p] =
                      [IdleProc EXCEPT !.pc = "loaded", !.event = event,
                                       !.input = data, !.file = store,
                                       !.seen = Len(last.savers)]]
    /\ UNCHANGED <<store, transcript, delivered>>

\* process p handles its event on what it loaded and saves
Finish(p) ==
    /\ last.procs[p].pc = "loaded"
    /\ LET me   == last.procs[p]
           held == WorkingFile(me.file, store)
       IN  \E failAt \in FailPoints(HookRun(me.event, held, me.input, RaceLines,
                                            TRUE, 0, TRUE).out.calls) :
             LET run == HookRun(me.event, held, me.input, RaceLines, TRUE,
                                failAt, TRUE)
                 saves == Saved(me.event, run.out)
             IN  /\ store' = IF saves THEN run.file ELSE store
                 /\ last' = [last EXCEPT
                               !.procs[p] = [me EXCEPT !.pc = "done",
                                                       !.calls = run.out.calls,
                                                       !.saved = saves,
                                                       !.failAt = failAt],
                               !.savers = IF saves THEN Append(@, p) ELSE @]
    /\ UNCHANGED <<transcript, delivered>>

RaceNext == \E p \in Procs : Begin(p) \/ Finish(p)

RaceSpec == RaceInit /\ [][RaceNext]_vars

----------------------------------------------------------------------------
(* Failure-free runs of one session with a tally of what the collector got. *)
(* `delivered` holds, per session, the number of user Messages and of       *)
(* assistant transcript Messages forwarded since the first SessionStart and *)
(* since the latest one, and whether an accumulator begun by SessionStart   *)
(* is still there.                                                          *)

MaxForwarded == 2 * MaxCount

NoTally ==
    [started |-> FALSE, open |-> FALSE, user |-> 0, assistant |-> 0,
     userSinceStart |-> 0, assistantSinceStart |-> 0]

\* the Messages of a role with a text content among the calls
ForwardedCount(calls, role) ==
    Cardinality({i \in 1..Len(calls) :
                   /\ calls[i].kind = "message"
                   /\ calls[i].ok
                   /\ calls[i].rec.role = role
                   /\ Has(calls[i].rec, "content")})

Tally(t, calls) ==
    [t EXCEPT !.user = @ + ForwardedCount(calls, "user"),
              !.assistant = @ + ForwardedCount(calls, "assistant"),
              !.userSinceStart = @ + ForwardedCount(calls, "user"),
              !.assistantSinceStart = @ + ForwardedCount(calls, "assistant")]

TallyInit ==
    /\ store = EmptyObj
    /\ transcript = [s \in Sessions |-> <<>>]
    /\ delivered = [s \in Sessions |-> NoTally]
    /\ last = NoInvocation

\* one failure-free invocation for session s, with tool-call syncing on
TallyHook(event, s) ==
    \E data \in Payloads(event, s) :
      LET out == HandleEvent(event, store, data, transcript[s], TRUE, 0)
          t0  == IF delivered[s].started THEN Tally(delivered[s], out.calls)
                 ELSE delivered[s]
          t1  == CASE event = "SessionStart" ->
                        [t0 EXCEPT !.started = TRUE, !.open = TRUE,
                                   !.userSinceStart = 0,
                                   !.assistantSinceStart = 0]
                   [] event = "SessionEnd" -> [t0 EXCEPT !.open = FALSE]
                   [] OTHER -> t0
      IN  /\ messageCountOf(out.store, s) <= MaxCount
          /\ t1.user + t1.assistant <= MaxForwarded
          /\ store' = out.store
          /\ last' = Invocation(event, data, out)
          /\ delivered' = [delivered EXCEPT ![s] = t1]
          /\ UNCHANGED transcript

TallyAppendLine(s) ==
    /\ Len(transcript[s]) < MaxLines
    /\ \E l \in Lines : transcript' = [transcript EXCEPT ![s] = Append(@, l)]
    /\ last' = NoInvocation
    /\ UNCHANGED <<store, delivered>>

TallyNext ==
    \E s \in Sessions :
      \/ TallyAppendLine(s)
      \/ \E event \in KnownEvents : TallyHook(event, s)

TallySpec == TallyInit /\ [][TallyNext]_vars

----------------------------------------------------------------------------
(* The in-process plugin (createPlugin, part_000).  `store` is the closure  *)
(* of one plugin instance: the two counters, the configuration flag and the *)
(* client's session cache; `delivered` holds per session the message        *)
(* identifiers generated so far; `last` the handler that ran, the           *)
(* identifier it generated and whether the session already had it.  ok     *)
(* tells whether the collector call of a Stop or SessionEnd returned: the   *)
(* statements after it are skipped when it throws.                          *)

PluginSessions == Sessions \cup {OtherSession}
\* the counters and the cached token totals are capped
MaxCounter == MaxCount
MaxCached == 1

\* `${sessionId}-msg-${messageCounter}` and `${sessionId}-tool-${toolCallCounter}`
MessageId(sessionId, kind, n) == [session |-> sessionId, kind |-> kind, n |-> n]
NoMessageId == MessageId("", "none", 0)

PluginInit ==
    /\ \E flag \in BOOLEAN :
         store = [messageCounter |-> 0, toolCallCounter |-> 0,
                  syncToolCalls |-> flag, sessionCache |-> EmptyObj]
    /\ transcript = [s \in Sessions |-> <<>>]
    /\ delivered = [s \in PluginSessions |-> {}]
    /\ last = [event |-> "none", session |-> "", id |-> NoMessageId,
               repeated |-> FALSE, ok |-> TRUE]

\* what a handler leaves: the closure, and the identifier of the Message it
\* built, if any
Issued(s, event, closure, id, ok) ==
    /\ store' = closure
    /\ delivered' = IF id = NoMessageId THEN delivered
                    ELSE [delivered EXCEPT ![s] = @ \cup {id}]
    /\ last' = [event |-> event, session |-> s, id |-> id,
                repeated |-> id \in delivered[s], ok |-> ok]
    /\ UNCHANGED transcript

\* client.updateSessionState(sessionId, updates)
updateSessionState(cache, s, field, value) ==
    Put(cache, s, Put(Get(cache, s, EmptyObj), field, value))

PluginSessionStart(s) ==
    Issued(s, "SessionStart",
           [store EXCEPT !.messageCounter = 0, !.toolCallCounter = 0,
                         !.sessionCache =
                            updateSessionState(@, s, "sessionId", s)],
           NoMessageId, TRUE)

PluginUserPromptSubmit(s) ==
    /\ store.messageCounter < MaxCounter
    /\ Issued(s, "UserPromptSubmit",
              [store EXCEPT !.messageCounter = @ + 1],
              MessageId(s, "msg", store.messageCounter + 1), TRUE)

PluginPostToolUse(s) ==
    IF ~store.syncToolCalls
    THEN Issued(s, "PostToolUse", store, NoMessageId, TRUE)
    ELSE /\ store.messageCounter < MaxCounter
         /\ Issued(s, "PostToolUse",
                   [store EXCEPT !.messageCounter = @ + 1,
                                 !.toolCallCounter = @ + 1],
                   MessageId(s, "tool", store.toolCallCounter + 1), TRUE)

PluginStop(s) ==
    \E response \in BOOLEAN, tokens \in {0, 1}, ok \in BOOLEAN :
      LET counted == IF response THEN [store EXCEPT !.messageCounter = @ + 1]
                     ELSE store
          id      == IF response THEN MessageId(s, "msg", store.messageCounter + 1)
                     ELSE NoMessageId
          current == Get(Get(store.sessionCache, s, EmptyObj), "tokenUsage", ZeroUsage)
          total   == [input |-> current.input + tokens,
                      output |-> current.output + tokens]
          updated == IF tokens > 0
                     THEN [counted EXCEPT !.sessionCache =
                             updateSessionState(@, s, "tokenUsage", total)]
                     ELSE counted
      IN  /\ response => store.messageCounter < MaxCounter
          /\ ~response => ok
          /\ total.input <= MaxCached
          /\ Issued(s, "Stop", IF ok THEN updated ELSE counted, id, ok)

PluginSessionEnd(s) ==
    \E ok \in BOOLEAN :
      Issued(s, "SessionEnd",
             IF ok THEN [store EXCEPT !.sessionCache = Del(@, s)] ELSE store,
             NoMessageId, ok)

PluginNext ==
    \E s \in PluginSessions :
      \/ PluginSessionStart(s)
      \/ PluginUserPromptSubmit(s)
      \/ PluginPostToolUse(s)
      \/ PluginStop(s)
      \/ PluginSessionEnd(s)

PluginSpec == PluginInit /\ [][PluginNext]_vars

----------------------------------------------------------------------------
(* Properties *)

Accumulator(st, s) == Get(st, s, EmptyObj)
syncedOf(st, s) == Get(Accumulator(st, s), "syncedMessageUuids", {})
tokenUsageOf(st, s) == Get(Accumulator(st, s), "tokenUsage", ZeroUsage)

\* the step just taken is an invocation for session s handling this event
Handled(event, s) ==
    /\ last'.event = event
    /\ Has(last'.input, "session_id")
    /\ last'.input.session_id = s

\* the calls that forward a transcript turn as an assistant Message
TurnCalls(calls) ==
    {i \in 1..Len(calls) :
        /\ calls[i].kind = "message"
        /\ calls[i].rec.role = "assistant"
        /\ Has(calls[i].rec, "content")}

SessionCalls(calls) == {i \in 1..Len(calls) : calls[i].kind = "session"}

\* C1: a Stop that ran without failure, replayed unchanged (same payload,
\* same transcript, collector reachable), leaves messageCount as it was and
\* forwards no assistant Message.
C1_StopReplayIdempotent ==
    [][\A s \in Sessions :
        ( /\ last.event = "Stop"
          /\ ~last.threw
          /\ Handled("Stop", s)
          /\ last'.input = last.input
          /\ ~last'.threw )
        => /\ messageCountOf(store', s) = messageCountOf(store, s)
           /\ TurnCalls(last'.calls) = {}]_vars

\* C2: no Stop forwards, as a new assistant Message, an entry id the
\* collector already accepted for that session.
C2_NoEntryForwardedTwice ==
    [][\A s \in Sessions :
        Handled("Stop", s) => Accepted(last'.calls) \cap delivered[s] = {}]_vars

\* C3: every event other than SessionEnd leaves the stored set of forwarded
\* entry ids a superset of what it was.
C3_SyncedIdsAppendOnly ==
    [][\A s \in Sessions :
        last'.event # "SessionEnd" => syncedOf(store, s) \subseteq syncedOf(store', s)]_vars

\* C4 as stated: no event before SessionEnd, SessionStart included, lowers
\* the persisted messageCount.
C4_CountNeverDecreases ==
    [][\A s \in Sessions :
        last'.event # "SessionEnd"
        => messageCountOf(store', s) >= messageCountOf(store, s)]_vars

\* C4 amended: UserPromptSubmit, PostToolUse, Stop and unknown events never
\* lower the persisted messageCount; SessionStart sets it to 0.
C4_CountMonotoneBetweenStarts ==
    [][\A s \in Sessions :
        /\ last'.event \notin {"SessionStart", "SessionEnd"}
           => messageCountOf(store', s) >= messageCountOf(store, s)
        /\ Handled("SessionStart", s) => messageCountOf(store', s) = 0]_vars

\* a Stop has counted an assistant turn on top of a counted prompt
C4_Witness ==
    \E s \in Sessions :
        /\ last.event = "Stop"
        /\ TurnCalls(last.calls) # {}
        /\ ~last.threw
        /\ Truthy(Accumulator(store, s), "firstPrompt")
        /\ messageCountOf(store, s) = 2

\* C5: re-sending a user prompt whose invocation failed after the prompt
\* was counted does not count it again.
C5_ResendCountsOnce ==
    [][\A s \in Sessions :
        ( /\ Handled("UserPromptSubmit", s)
          /\ last'.input.resend
          /\ \E i \in 1..Len(last.calls) : last.calls[i].kind = "message" )
        => messageCountOf(store', s) = messageCountOf(store, s)]_vars

\* C6: whichever collector call fails, what the invocation computed is in
\* the store when it ends: Stop stores the parsed usage and the id of every
\* turn it counted, SessionEnd deletes the accumulator, UserPromptSubmit
\* stores the first prompt.
C6_FailureKeepsLocalState ==
    [][\A s \in Sessions :
        /\ ( Handled("Stop", s) /\ last'.input.transcript_path = "file" )
           => LET parsed == parseTranscriptFile([exists |-> TRUE,
                                                 lines |-> transcript[s]])
              IN  /\ (parsed.tokenUsage.input > 0 \/ parsed.tokenUsage.output > 0)
                     => tokenUsageOf(store', s) = parsed.tokenUsage
                  /\ \A i \in TurnCalls(last'.calls) :
                        last'.calls[i].rec.messageId \in Uuids
                        => last'.calls[i].rec.messageId \in syncedOf(store', s)
        /\ Handled("SessionEnd", s) => s \notin DOMAIN store'
        /\ Handled("UserPromptSubmit", s)
           => Has(Accumulator(store', s), "firstPrompt")]_vars

\* C7: every invocation exits with status 0; a failed collector call ends
\* the handler (nothing is called after it), and what is thrown is logged.
C7_AlwaysExitZero ==
    /\ last.exit = 0
    /\ last.threw => last.logged
    /\ \A i \in 1..Len(last.calls) :
          ~last.calls[i].ok => (last.threw /\ i = Len(last.calls))

\* an invocation whose collector call failed
C7_Witness ==
    /\ last.event = "Stop"
    /\ last.threw
    /\ \E i \in 1..Len(last.calls) : ~last.calls[i].ok
    /\ last.exit = 0

UsageLeq(a, b) == a.input <= b.input /\ a.output <= b.output

\* C8 as stated: no event before SessionEnd, SessionStart included, lowers
\* tokenUsage.input or tokenUsage.output.
C8_UsageNeverDecreases ==
    [][\A s \in Sessions :
        last'.event # "SessionEnd"
        => UsageLeq(tokenUsageOf(store, s), tokenUsageOf(store', s))]_vars

\* C8 amended: while the transcript only grows, UserPromptSubmit,
\* PostToolUse, Stop and unknown events never lower tokenUsage.input or
\* tokenUsage.output; SessionStart sets both to 0.
C8_UsageMonotoneBetweenStarts ==
    [][\A s \in Sessions :
        /\ last'.event \notin {"SessionStart", "SessionEnd"}
           => UsageLeq(tokenUsageOf(store, s), tokenUsageOf(store', s))
        /\ Handled("SessionStart", s) => tokenUsageOf(store', s) = ZeroUsage]_vars

\* a Stop has stored the total of a transcript of two assistant turns
C8_Witness ==
    \E s \in Sessions :
        /\ last.event = "Stop"
        /\ ~last.threw
        /\ Len(transcript[s]) = 2
        /\ tokenUsageOf(store, s).input = 200
        /\ tokenUsageOf(store, s).output = 100

\* C9: after a Stop the stored tokenUsage is the parsed total when that
\* total is non-zero, and is what it was (absent included) otherwise.
C9_StopSetsUsage ==
    [][\A s \in Sessions :
        Handled("Stop", s)
        => LET parsed == parseTranscriptFile(
                            [exists |-> last'.input.transcript_path = "file",
                             lines |-> transcript[s]])
               nonzero == /\ last'.input.transcript_path # "none"
                          /\ (parsed.tokenUsage.input > 0 \/ parsed.tokenUsage.output > 0)
           IN  IF nonzero
               THEN /\ Has(Accumulator(store', s), "tokenUsage")
                    /\ tokenUsageOf(store', s) = parsed.tokenUsage
               ELSE /\ Has(Accumulator(store', s), "tokenUsage")
                         = Has(Accumulator(store, s), "tokenUsage")
                    /\ tokenUsageOf(store', s) = tokenUsageOf(store, s)]_vars

\* C10: a SessionEnd issues exactly one Session record and leaves the store
\* without an entry for the session.
C10_EndForwardsOnceAndDeletes ==
    [][\A s \in Sessions :
        Handled("SessionEnd", s)
        => /\ Len(last'.calls) = 1
           /\ Cardinality(SessionCalls(last'.calls)) = 1
           /\ s \notin DOMAIN store']_vars

\* the Session record of the single call of an invocation
SessionRecord(inv) == inv.calls[1].rec

OneSessionCall(inv) == Len(inv.calls) = 1 /\ inv.calls[1].kind = "session"

\* field f of object a is field g of object b: both absent, or both defined
\* and equal
SameField(a, f, b, g) ==
    /\ Has(a, f) = Has(b, g)
    /\ Has(a, f) => a[f] = b[g]

\* C11: a SessionEnd for a session with no accumulator does not fail: it
\* forwards one Session record without title that carries every count the
\* payload supplies (an absent one stays absent), exits 0, and the store
\* still has no entry for the session.
C11_EndWithoutAccumulator ==
    [][\A s \in Sessions :
        ( Handled("SessionEnd", s) /\ s \notin DOMAIN store )
        => /\ OneSessionCall(last')
           /\ ~Has(SessionRecord(last'), "title")
           /\ SameField(SessionRecord(last'), "messageCount",
                        last'.input, "message_count")
           /\ SameField(SessionRecord(last'), "tokenUsage",
                        last'.input, "total_token_usage")
           /\ last'.exit = 0
           /\ last'.threw = ~last'.calls[1].ok
           /\ s \notin DOMAIN store']_vars

\* C12: the Session record of a SessionEnd carries the payload's message
\* count and token usage when the payload supplies them (zero included) and
\* the accumulated ones when it does not.
C12_EndPrefersPayload ==
    [][\A s \in Sessions :
        Handled("SessionEnd", s)
        => /\ OneSessionCall(last')
           /\ IF Has(last'.input, "message_count")
              THEN SameField(SessionRecord(last'), "messageCount",
                             last'.input, "message_count")
              ELSE SameField(SessionRecord(last'), "messageCount",
                             Accumulator(store, s), "messageCount")
           /\ IF Has(last'.input, "total_token_usage")
              THEN SameField(SessionRecord(last'), "tokenUsage",
                             last'.input, "total_token_usage")
              ELSE SameField(SessionRecord(last'), "tokenUsage",
                             Accumulator(store, s), "tokenUsage")]_vars

\* C13: the first UserPromptSubmit of a session stores its prompt as
\* firstPrompt, and a stored firstPrompt is kept as it is by every event
\* before SessionEnd.
C13_FirstPromptSetOnce ==
    [][\A s \in Sessions :
        /\ ( Handled("UserPromptSubmit", s)
             /\ ~Has(Accumulator(store, s), "firstPrompt") )
           => SameField(Accumulator(store', s), "firstPrompt", last'.input, "prompt")
        /\ ( Has(Accumulator(store, s), "firstPrompt")
             /\ last'.event # "SessionEnd" )
           => SameField(Accumulator(store', s), "firstPrompt",
                        Accumulator(store, s), "firstPrompt")]_vars

\* the calls that forward the user's prompt as a Message
PromptCalls(calls) ==
    {i \in 1..Len(calls) : calls[i].kind = "message" /\ calls[i].rec.role = "user"}

\* C14: a UserPromptSubmit for a session that has no accumulator forwards
\* a Session title update; a new prompt that follows a processed prompt of
\* the same session forwards a user Message and no Session update.
C14_TitleIffFirstPrompt ==
    [][\A s \in Sessions :
        Handled("UserPromptSubmit", s)
        => /\ s \notin DOMAIN store
              => /\ SessionCalls(last'.calls) = {1}
                 /\ Has(last'.calls[1].rec, "title")
           /\ ( /\ last.event = "UserPromptSubmit"
                /\ ~last.threw
                /\ last.input.session_id = s
                /\ ~last'.input.resend )
              => /\ SessionCalls(last'.calls) = {}
                 /\ Cardinality(PromptCalls(last'.calls)) = 1]_vars

\* C15: after a SessionStart the accumulator of the session holds the
\* payload's model (absent when the payload has none), tokenUsage {0, 0}
\* and messageCount 0, whatever the store held before, and exactly one
\* Session record with the identity, that model and a start timestamp is
\* issued.
C15_StartResetsAccumulator ==
    [][\A s \in Sessions :
        Handled("SessionStart", s)
        => /\ s \in DOMAIN store'
           /\ DOMAIN store'[s] \subseteq {"model", "tokenUsage", "messageCount"}
           /\ SameField(store'[s], "model", last'.input, "model")
           /\ Has(store'[s], "tokenUsage") /\ store'[s].tokenUsage = ZeroUsage
           /\ Has(store'[s], "messageCount") /\ store'[s].messageCount = 0
           /\ OneSessionCall(last')
           /\ SessionRecord(last').sessionId = s
           /\ SameField(SessionRecord(last'), "model", last'.input, "model")
           /\ Has(SessionRecord(last'), "startedAt")]_vars

\* a SessionStart has reset a session whose turns had been forwarded
C15_Witness ==
    \E s \in Sessions :
        /\ last.event = "SessionStart"
        /\ Has(last.input, "model")
        /\ delivered[s] # {}
        /\ messageCountOf(store, s) = 0
        /\ ~Has(Accumulator(store, s), "syncedMessageUuids")

\* C16: a model held by the accumulator is held unchanged after every event
\* before SessionEnd, a SessionStart without model included.
C16_ModelNeverLost ==
    [][\A s \in Sessions :
        ( Has(Accumulator(store, s), "model") /\ last'.event # "SessionEnd" )
        => SameField(Accumulator(store', s), "model",
                     Accumulator(store, s), "model")]_vars

\* text <<i, k>> is part k of line i: the order of the transcript
TextBefore(a, b) == a[1] < b[1] \/ (a[1] = b[1] /\ a[2] < b[2])

\* C17: the calls of a Stop are issued one after another (only the last one
\* can have failed), the assistant Messages go out in transcript order, and
\* the Session update, carrying the stored tokenUsage and messageCount, is
\* the last call, issued when every Message call succeeded.
C17_StopCallOrder ==
    [][\A s \in Sessions :
        Handled("Stop", s)
        => LET calls == last'.calls
           IN  /\ \A i \in 1..Len(calls) : ~calls[i].ok => i = Len(calls)
               /\ \A i, j \in TurnCalls(calls) :
                     i < j => TextBefore(calls[i].rec.content, calls[j].rec.content)
               /\ \A i \in 1..Len(calls) :
                     i \in SessionCalls(calls) <=> i \notin TurnCalls(calls)
               /\ \A i \in SessionCalls(calls) :
                     /\ i = Len(calls)
                     /\ SameField(calls[i].rec, "tokenUsage",
                                  Accumulator(store', s), "tokenUsage")
                     /\ SameField(calls[i].rec, "messageCount",
                                  Accumulator(store', s), "messageCount")
               /\ (SessionCalls(calls) = {}) <=>
                     (\E i \in TurnCalls(calls) : ~calls[i].ok)]_vars

\* a Stop has forwarded two turns and then the Session update
C17_Witness ==
    /\ last.event = "Stop"
    /\ ~last.threw
    /\ Len(last.calls) = 3
    /\ TurnCalls(last.calls) = {1, 2}
    /\ SessionCalls(last.calls) = {3}

\* C18: a Stop whose transcript path names no file parses to zero turns and
\* zero usage, leaves tokenUsage and messageCount as they were, forwards no
\* Message and issues exactly one Session record, which carries the
\* accumulated tokenUsage and messageCount; only a failure of that call
\* raises.
C18_StopMissingTranscript ==
    [][\A s \in Sessions :
        ( Handled("Stop", s) /\ last'.input.transcript_path = "missing" )
        => /\ parseTranscriptFile([exists |-> FALSE, lines |-> transcript[s]])
                = EmptyParse
           /\ SameField(Accumulator(store', s), "tokenUsage",
                        Accumulator(store, s), "tokenUsage")
           /\ SameField(Accumulator(store', s), "messageCount",
                        Accumulator(store, s), "messageCount")
           /\ OneSessionCall(last')
           /\ SameField(SessionRecord(last'), "tokenUsage",
                        Accumulator(store, s), "tokenUsage")
           /\ SameField(SessionRecord(last'), "messageCount",
                        Accumulator(store, s), "messageCount")
           /\ last'.threw = ~last'.calls[1].ok]_vars

\* a Stop without transcript file has forwarded the totals an earlier Stop
\* stored
C18_Witness ==
    \E s \in Sessions :
        /\ last.event = "Stop"
        /\ last.input.transcript_path = "missing"
        /\ ~last.threw
        /\ OneSessionCall(last)
        /\ Get(SessionRecord(last), "tokenUsage", ZeroUsage) = [input |-> 100, output |-> 50]
        /\ Get(SessionRecord(last), "messageCount", 0) = 1

\* an entry the parser takes for an assistant turn
IsAssistantEntry(entry) == entry.type = "assistant" /\ entry.message

\* the lines of assistant entries that carry uuid u
LinesOfUuid(lines, u) ==
    {i \in 1..Len(lines) : IsAssistantEntry(lines[i]) /\ lines[i].uuid = u}

SetMin(S) == CHOOSE i \in S : \A j \in S : i <= j

\* the lines that are not a later occurrence of a uuid
FirstOccurrences(lines) ==
    {i \in 1..Len(lines) :
        /\ IsAssistantEntry(lines[i])
        /\ lines[i].uuid # NoUuid => i = SetMin(LinesOfUuid(lines, lines[i].uuid))}

\* the usage total of the lines in I, by the formula of the specification
RECURSIVE SumUsage(_, _)
SumUsage(lines, I) ==
    IF I = {} THEN ZeroUsage
    ELSE LET i == SetMin(I)
             rest == SumUsage(lines, I \ {i})
             u == lines[i].usage
         IN  [input |-> rest.input + Get(u, "input_tokens", 0)
                          + Get(u, "cache_read_input_tokens", 0)
                          + Get(u, "cache_creation_input_tokens", 0),
              output |-> rest.output + Get(u, "output_tokens", 0)]

\* the parse of an existing file has been taken
Parsed == last.event = "parseTranscriptFile" /\ last.input.exists

MessagesOfUuid(msgs, u) == SelectSeq(msgs, LAMBDA m : m.uuid = u)

\* C19 as stated: a uuid carried by two or more assistant lines yields
\* exactly one extracted message, taken from the first of these lines.
C19_OneTurnPerUuid ==
    Parsed =>
      \A u \in Uuids :
        Cardinality(LinesOfUuid(last.input.lines, u)) >= 2
        => LET first == SetMin(LinesOfUuid(last.input.lines, u))
               found == MessagesOfUuid(last.result.assistantMessages, u)
           IN  Len(found) = 1 /\ found[1].text[1] = first

\* C19 amended: of the assistant lines that carry one uuid only the first
\* is used: the messages extracted under that uuid are the text parts of
\* the first line, one message per part (none when it has no text part),
\* and the usage total is that of the first occurrences, so a later line
\* adds neither text nor usage.
C19_FirstLineOfUuidOnly ==
    Parsed =>
      /\ \A u \in Uuids :
           Cardinality(LinesOfUuid(last.input.lines, u)) >= 2
           => LET first == SetMin(LinesOfUuid(last.input.lines, u))
              IN  MessagesOfUuid(last.result.assistantMessages, u)
                    = TextMessages(last.input.lines[first], first)
      /\ last.result.tokenUsage
           = SumUsage(last.input.lines, FirstOccurrences(last.input.lines))

\* a transcript whose third line repeats the uuid of its first, both with
\* text and usage, has been parsed to the one message of the first line
C19_Witness ==
    /\ Parsed
    /\ Len(last.input.lines) = 3
    /\ last.input.lines[1] = AssistantLine("u1", 1)
    /\ last.input.lines[3].uuid = "u1"
    /\ last.input.lines[3].texts = 2
    /\ Len(last.result.assistantMessages) = 1
    /\ last.result.tokenUsage = [input |-> 100, output |-> 50]

\* C20 as stated: the parsed total is the sum over all assistant entries of
\* the transcript.
C20_UsageSumsAllAssistantEntries ==
    Parsed =>
      last.result.tokenUsage
        = SumUsage(last.input.lines,
                   {i \in 1..Len(last.input.lines) :
                       IsAssistantEntry(last.input.lines[i])})

\* C20 amended: the parsed total is the sum, over the assistant entries
\* that are not a later occurrence of a uuid, of input_tokens +
\* cache_read_input_tokens + cache_creation_input_tokens (input) and of
\* output_tokens (output), a missing counter counting 0; it does not depend
\* on the other lines nor on the text parts of the entries.
C20_UsageSumsFirstOccurrences ==
    Parsed =>
      last.result.tokenUsage
        = SumUsage(last.input.lines, FirstOccurrences(last.input.lines))

\* an entry without text part, an entry that lacks counters and a user
\* entry with usage have been totalled
C20_Witness ==
    /\ Parsed
    /\ Len(last.input.lines) = 3
    /\ last.input.lines[1].texts = 0 /\ last.input.lines[1].type = "assistant"
    /\ last.input.lines[2].type = "user"
    /\ last.input.lines[3].uuid = NoUuid /\ last.input.lines[3].type = "assistant"
    /\ last.result.tokenUsage = [input |-> 7, output |-> 2]

\* the lines JSON.parse accepts, in file order, and their line numbers
WellFormed(lines) == SelectSeq(lines, LAMBDA l : l.type # "malformed")

RECURSIVE WellFormedNumbers(_, _)
WellFormedNumbers(lines, i) ==
    IF i > Len(lines) THEN <<>>
    ELSE IF lines[i].type = "malformed" THEN WellFormedNumbers(lines, i + 1)
    ELSE <<i>> \o WellFormedNumbers(lines, i + 1)

\* a parse result of the well-formed lines, with every text named by the
\* number its line has in the whole file
Renumbered(result, numbers) ==
    [assistantMessages |->
        [k \in 1..Len(result.assistantMessages) |->
            [uuid |-> result.assistantMessages[k].uuid,
             text |-> <<numbers[result.assistantMessages[k].text[1]],
                        result.assistantMessages[k].text[2]>>]],
     tokenUsage |-> result.tokenUsage]

\* C21: both parsers give, for every file, the result they give for the
\* file with its malformed lines removed (same turns in the same order,
\* same usage totals and stats), wherever the malformed lines stand, the
\* last line included.
C21_MalformedLinesSkipped ==
    /\ Parsed
       => last.result
            = Renumbered(
                parseTranscriptFile([exists |-> TRUE,
                                     lines |-> WellFormed(last.input.lines)]),
                WellFormedNumbers(last.input.lines, 1))
    /\ (last.event = "parseTranscript" /\ last.input.exists)
       => last.stats
            = parseTranscript([exists |-> TRUE,
                               lines |-> WellFormed(last.input.lines)])

\* a file with a malformed line before and after an assistant entry has
\* been parsed to the turn and usage of that entry
C21_Witness ==
    /\ Parsed
    /\ Len(last.input.lines) = 3
    /\ last.input.lines[1] = MalformedLine
    /\ last.input.lines[2] = AssistantLine("u1", 1)
    /\ last.input.lines[3] = MalformedLine
    /\ last.result.assistantMessages = <<[uuid |-> "u1", text |-> <<2, 1>>]>>
    /\ last.result.tokenUsage = [input |-> 100, output |-> 50]

\* the positions, counted from 1, of the spaces of a string
SpacesOf(str) == {i \in 1..Len(str) : str[i] = " "}

SetMax(S) == CHOOSE i \in S : \A j \in S : j <= i

Titled == last.event = "generateTitle"

\* C22: a prompt of at most 80 characters gives the trimmed
\* prompt; a longer one whose last space within the first 80 characters is
\* at or after the 40th character gives the characters up to and including
\* that space plus the ellipsis; any other gives the first 80 characters
\* plus the ellipsis.
C22_TitleAsStated ==
    Titled =>
      LET prompt == last.input.prompt
          window == SubSeq(prompt, 1, Min(TitleWindow, Len(prompt)))
      IN  IF Len(prompt) <= TitleWindow
          THEN last.result = Trim(prompt)
          ELSE IF SpacesOf(window) # {} /\ SetMax(SpacesOf(window)) >= TitleMinBreak
          THEN last.result = SubSeq(prompt, 1, SetMax(SpacesOf(window))) \o Ellipsis
          ELSE last.result = window \o Ellipsis

\* the table entries a model selects by the stated rule: the exact key, or
\* else the first key, in table order, that contains the model string or is
\* contained in it; 0 when there is none
SelectedEntry(name) ==
    LET exact == {i \in 1..Len(MODEL_PRICING) : MODEL_PRICING[i].key = name}
        partial == {i \in 1..Len(MODEL_PRICING) :
                      \/ Includes(name, MODEL_PRICING[i].key)
                      \/ Includes(MODEL_PRICING[i].key, name)}
    IN  IF exact # {} THEN SetMin(exact)
        ELSE IF partial # {} THEN SetMin(partial)
        ELSE 0

\* C23: calculateCost is the sum of tokens x rate over the four classes,
\* divided by 1,000,000, with the rates of the exact key or else of the
\* first key in table order that contains or is contained in the model; it
\* is 0 when there is no model (undefined or empty) or no key matches, it
\* is never negative, and claude-sonnet-4-20250514 with a million input and
\* a million output tokens costs 18.00.
C23_CostFormula ==
    last.event = "calculateCost" =>
      LET model == last.input.model
          stats == last.input.stats
          entry == IF model.defined /\ model.value # <<>>
                   THEN SelectedEntry(model.value) ELSE 0
      IN  /\ last.result >= 0
          /\ entry = 0 => last.result = 0
          /\ entry # 0 =>
               last.result
                 = stats.inputTokens * MODEL_PRICING[entry].input
                   + stats.outputTokens * MODEL_PRICING[entry].output
                   + stats.cacheCreationTokens * MODEL_PRICING[entry].cacheWrite
                   + stats.cacheReadTokens * MODEL_PRICING[entry].cacheRead
          /\ (model = Defined(KeySonnet4) /\ stats = MillionStats)
             => last.result = 18 * CostScale

\* a model that is part of two keys with different rates has been priced
\* with the rates of the first of them
C23_Witness ==
    /\ last.event = "calculateCost"
    /\ last.input.model = Defined(<<"c", "l", "a", "u", "d", "e", "-", "3", "-", "5">>)
    /\ last.input.stats = [inputTokens |-> MaxTokens, cacheCreationTokens |-> 1,
                           cacheReadTokens |-> 1, outputTokens |-> MaxTokens]
    /\ last.result = MaxTokens * 300 + 375 + 30 + MaxTokens * 1500

\* the characters of a model name of Models
ModelChars(m) == IF m = "claude-sonnet-4-20250514" THEN KeySonnet4 ELSE <<>>

\* the stats the accumulated counters of an accumulator amount to
StatsOfUsage(usage) ==
    [inputTokens |-> usage.input, cacheCreationTokens |-> 0,
     cacheReadTokens |-> 0, outputTokens |-> usage.output]

\* C24: the Session record forwarded by a Stop that extracts usage from the
\* transcript carries a cost, the price of the accumulated token counters
\* under the session's model, whenever that model has a pricing entry.
C24_StopRecordCarriesCost ==
    [][\A s \in Sessions :
        ( /\ Handled("Stop", s)
          /\ last'.input.transcript_path = "file"
          /\ parseTranscriptFile([exists |-> TRUE, lines |-> transcript[s]])
                .tokenUsage.input > 0
          /\ Has(Accumulator(store', s), "model")
          /\ SelectedEntry(ModelChars(Accumulator(store', s).model)) # 0 )
        => \A i \in SessionCalls(last'.calls) :
              /\ Has(last'.calls[i].rec, "costEstimate")
              /\ last'.calls[i].rec.costEstimate
                   = calculateCost(Defined(ModelChars(Accumulator(store', s).model)),
                                   StatsOfUsage(tokenUsageOf(store', s)))]_vars

\* the step is one invocation of the hook command on the state file
Invoked(event) == last.event = "none" /\ last'.event = event

\* the fields of the accumulator the handler of an event assigns
MutatedFields(event) ==
    IF event = "UserPromptSubmit"
    THEN {"firstPrompt", "messageCount"}
    ELSE {"tokenUsage", "messageCount", "syncedMessageUuids"}

\* C25: a UserPromptSubmit or Stop for a session with a stored record leaves
\* on disk every field of that record it does not assign, fields unknown to
\* the program included, adds no field but those it assigns, keeps the
\* stored uuids in their order, and leaves the records of all other
\* sessions as they were.
C25_StoreRoundTrip ==
    [][\A event \in {"UserPromptSubmit", "Stop"}, sid \in Sessions :
        ( /\ Invoked(event)
          /\ last'.input.session_id = sid
          /\ store.status = "ok"
          /\ Has(store.content, sid) )
        => /\ store'.status = "ok"
           /\ DOMAIN store'.content = DOMAIN store.content
           /\ \A other \in (DOMAIN store.content) \ {sid} :
                 store'.content[other] = store.content[other]
           /\ \A f \in (DOMAIN store.content[sid]) \ MutatedFields(event) :
                 /\ Has(store'.content[sid], f)
                 /\ store'.content[sid][f] = store.content[sid][f]
           /\ DOMAIN store'.content[sid]
                \subseteq (DOMAIN store.content[sid]) \cup MutatedFields(event)
           /\ Has(store.content[sid], "syncedMessageUuids")
              => /\ Has(store'.content[sid], "syncedMessageUuids")
                 /\ SubSeq(store'.content[sid].syncedMessageUuids, 1,
                           Len(store.content[sid].syncedMessageUuids))
                      = store.content[sid].syncedMessageUuids]_vars

\* a Stop has added a uuid to a record that keeps its unknown field, next to
\* the untouched record of another session
C25_Witness ==
    /\ last.event = "Stop"
    /\ last.loaded = "ok"
    /\ ~last.threw
    /\ store.status = "ok"
    /\ DOMAIN store.content = {"S1", OtherSession}
    /\ Has(store.content["S1"], "pinned")
    /\ Get(store.content["S1"], "syncedMessageUuids", <<>>) = <<"u2", "u1">>
    /\ Has(store.content[OtherSession], "pinned")

\* C26: with a state file that is absent, unreadable or corrupt, every event
\* is handled as with an empty store: it forwards the records, and leaves
\* the file, that the same invocation gives on an empty store, it raises
\* only when a collector call fails, and it exits with status 0.
C26_BrokenStoreIsEmptyStore ==
    [][\A event \in KnownEvents \cup {OtherEvent} :
        ( Invoked(event) /\ store.status # "ok" )
        => LET run == HookRun(event, EmptyFile, last'.input,
                              transcript[CHOOSE s \in Sessions : TRUE],
                              last'.syncToolCalls, last'.failAt, last'.writable)
           IN  /\ last'.calls = run.out.calls
               /\ last'.threw = (\E i \in 1..Len(last'.calls) : ~last'.calls[i].ok)
               /\ last'.exit = 0
               /\ store' = IF Saved(event, run.out) /\ last'.writable
                           THEN run.file ELSE store
               /\ \A i \in 1..Len(last'.calls) :
                     /\ ~Has(last'.calls[i].rec, "title")
                        \/ last'.event = "UserPromptSubmit"
                     /\ last'.calls[i].kind = "session" /\ last'.event = "Stop"
                        => Get(last'.calls[i].rec, "messageCount", 0)
                             = Cardinality(TurnCalls(last'.calls))]_vars

\* a Stop on a corrupt file has forwarded the turns of the transcript and a
\* Session record, and has written a fresh store
C26_Witness ==
    /\ last.event = "Stop"
    /\ last.loaded = "corrupt"
    /\ ~last.threw
    /\ Len(last.calls) = 3
    /\ store = [status |-> "ok",
                content |-> [s \in {"S1"} |->
                               [tokenUsage |-> [input |-> 200, output |-> 100],
                                messageCount |-> 2,
                                syncedMessageUuids |-> <<"u1", "u2">>]]]

\* C27: an event the switch does not know leaves the state file as it was,
\* forwards no record and ends normally, without an error.
C27_UnknownEventNoOp ==
    [][Invoked(OtherEvent)
       => /\ store' = store
          /\ last'.calls = <<>>
          /\ ~last'.threw
          /\ ~last'.logged
          /\ last'.exit = 0]_vars

\* an unknown event has been handled on a store that holds records
C27_Witness ==
    /\ last.event = OtherEvent
    /\ last.loaded = "ok"
    /\ last.exit = 0
    /\ last.writable
    /\ store.status = "ok"
    /\ DOMAIN store.content = {"S1", OtherSession}

\* C28: an event whose payload has no session identifier leaves the state
\* file as it was and forwards no record.
C28_NoSessionIdNoOp ==
    [][\A event \in KnownEvents \cup {OtherEvent} :
        ( Invoked(event) /\ last'.input.session_id = NoSessionId )
        => /\ store' = store
           /\ last'.calls = <<>>]_vars

\* C29: a PostToolUse forwards one assistant Message naming the tool when
\* tool-call syncing is enabled and nothing when it is not, and leaves the
\* state file as it was in both cases.
C29_ToolMessageIffEnabled ==
    [][Invoked("PostToolUse")
       => /\ store' = store
          /\ IF last'.syncToolCalls
             THEN /\ Len(last'.calls) = 1
                  /\ last'.calls[1].kind = "message"
                  /\ last'.calls[1].rec.role = "assistant"
                  /\ last'.calls[1].rec.toolName = last'.input.tool_name
                  /\ last'.calls[1].rec.messageId = last'.input.tool_use_id
             ELSE last'.calls = <<>>]_vars

\* a PostToolUse with syncing enabled has forwarded its Message for a session
\* with a stored record
C29_Witness ==
    /\ last.event = "PostToolUse"
    /\ last.syncToolCalls
    /\ Len(last.calls) = 1
    /\ last.calls[1].ok
    /\ last.input.session_id = "S1"
    /\ store.status = "ok"
    /\ Has(store.content, "S1")

\* C30: every invocation that completes raises messageCount by the number
\* of messages it observes: one for a user prompt, one for a tool use, and
\* one for each assistant turn it forwards.
C30_CountsEveryMessage ==
    [][\A s \in Sessions :
        /\ ( Handled("UserPromptSubmit", s) /\ ~last'.threw )
           => messageCountOf(store', s) = messageCountOf(store, s) + 1
        /\ ( Handled("PostToolUse", s) /\ Has(last'.input, "tool_name")
             /\ ~last'.threw )
           => messageCountOf(store', s) = messageCountOf(store, s) + 1
        /\ ( Handled("Stop", s) /\ ~last'.threw )
           => messageCountOf(store', s)
                = messageCountOf(store, s) + Cardinality(TurnCalls(last'.calls))]_vars

FixBug == <<"f", "i", "x", " ", "b", "u", "g">>

\* the accumulator of the scenario after its UserPromptSubmit, but for the model
AfterFixBug(acc) ==
    /\ Get(acc, "firstPrompt", <<>>) = FixBug
    /\ Get(acc, "messageCount", 0) = 1
    /\ Get(acc, "tokenUsage", ZeroUsage) = ZeroUsage
    /\ Get(acc, "syncedMessageUuids", {}) = {}

\* the accumulator of the scenario after its Stop
AfterOneTurn(acc) ==
    /\ Get(acc, "firstPrompt", <<>>) = FixBug
    /\ Get(acc, "messageCount", 0) = 2
    /\ Get(acc, "tokenUsage", ZeroUsage) = [input |-> 100, output |-> 50]

\* C31: the end-to-end scenario, step by step, each step run without
\* failure from the state the step before it leaves: right after
\* SessionStart(S1), UserPromptSubmit "fix bug" forwards the title "fix bug"
\* and makes messageCount 1; from there a Stop whose transcript holds one
\* assistant turn of 100 input and 50 output tokens makes messageCount 2 and
\* tokenUsage {100, 50} and forwards exactly one assistant Message; from
\* there a SessionEnd without counts forwards one Session record with title
\* "fix bug" and messageCount 2 and removes the accumulator of S1.
C31_EndToEndScenario ==
    [][\A s \in Sessions :
        /\ ( /\ last.event = "SessionStart"
             /\ Handled("UserPromptSubmit", s)
             /\ last'.input.prompt = FixBug
             /\ ~last'.threw )
           => /\ Len(last'.calls) = 2
              /\ OneSessionCall([calls |-> SubSeq(last'.calls, 1, 1)])
              /\ Get(last'.calls[1].rec, "title", <<>>) = FixBug
              /\ last'.calls[2].kind = "message"
              /\ last'.calls[2].rec.role = "user"
              /\ last'.calls[2].rec.content = FixBug
              /\ AfterFixBug(Accumulator(store', s))
        /\ ( /\ Has(store, s)
             /\ AfterFixBug(store[s])
             /\ Handled("Stop", s)
             /\ last'.input.transcript_path = "file"
             /\ Len(transcript[s]) = 1
             /\ IsAssistantEntry(transcript[s][1])
             /\ transcript[s][1].texts = 1
             /\ ~last'.threw )
           => /\ AfterOneTurn(Accumulator(store', s))
              /\ Cardinality(TurnCalls(last'.calls)) = 1
              /\ Len(last'.calls) = 2
              /\ last'.calls[2].kind = "session"
              /\ Get(last'.calls[2].rec, "messageCount", 0) = 2
              /\ Get(last'.calls[2].rec, "tokenUsage", ZeroUsage)
                   = [input |-> 100, output |-> 50]
        /\ ( /\ Has(store, s)
             /\ AfterOneTurn(store[s])
             /\ Handled("SessionEnd", s)
             /\ ~Has(last'.input, "message_count")
             /\ ~Has(last'.input, "total_token_usage")
             /\ ~last'.threw )
           => /\ OneSessionCall(last')
              /\ Get(SessionRecord(last'), "title", <<>>) = FixBug
              /\ Get(SessionRecord(last'), "messageCount", 0) = 2
              /\ ~Has(store', s)]_vars

\* the last step of the scenario has acted: the final Session record of a
\* session with one prompt and one forwarded turn has been sent and the store
\* is empty
C31_Witness ==
    /\ last.event = "SessionEnd"
    /\ ~last.threw
    /\ ~Has(last.input, "message_count")
    /\ OneSessionCall(last)
    /\ Get(SessionRecord(last), "title", <<>>) = FixBug
    /\ Get(SessionRecord(last), "messageCount", 0) = 2
    /\ Get(SessionRecord(last), "tokenUsage", ZeroUsage) = [input |-> 100, output |-> 50]
    /\ store = EmptyObj
    /\ \E s \in Sessions : delivered[s] # {} /\ Len(transcript[s]) = 1

\* the file an invocation leaves when it runs alone on a file
AloneOn(file, me) ==
    HookRun(me.event, file, me.input, RaceLines, TRUE, me.failAt, TRUE).file

\* C32: when two invocations for the same session have both loaded the
\* state file before either saved, the file after both have saved is the
\* one the last saver writes from what it loaded, as if the earlier saver
\* had never run: the earlier saver's changes are lost.
C32_LastWriterWins ==
    \A p, q \in Procs :
      ( /\ last.savers = <<q, p>>
        /\ last.procs[p].seen = 0
        /\ last.procs[q].seen = 0
        /\ last.procs[p].input.session_id = last.procs[q].input.session_id )
      => /\ store = AloneOn(last.initial, last.procs[p])
         /\ last.procs[p].file = last.initial

\* a prompt and a Stop of S1 raced: the prompt saved first, the Stop last,
\* and the file has the Stop's count only and no first prompt
C32_Witness ==
    /\ last.savers = <<1, 2>>
    /\ last.procs[1].seen = 0
    /\ last.procs[2].seen = 0
    /\ last.procs[1].event = "UserPromptSubmit"
    /\ last.procs[1].input.session_id = "S1"
    /\ last.procs[2].event = "Stop"
    /\ last.procs[2].input.session_id = "S1"
    /\ last.procs[1].failAt = 0
    /\ last.procs[2].failAt = 0
    /\ Has(store.content, "S1")
    /\ ~Has(store.content["S1"], "firstPrompt")
    /\ Get(store.content["S1"], "messageCount", 0) = 1

\* process p ends its invocation in this step
Finishes(p) == last.procs[p].pc = "loaded" /\ last'.procs[p].pc = "done"

\* C35: an invocation for session A leaves the stored accumulator of every
\* other session B as it was, also when it interleaves with an invocation
\* for B.
C35_OtherSessionsUntouched ==
    [][\A p \in Procs :
        Finishes(p)
        => \A b \in {"S1", OtherSession} \ {last.procs[p].input.session_id} :
              SameField(store'.content, b, store.content, b)]_vars

\* C35, amended: an invocation for A that saves writes for every other
\* session B the accumulator it loaded when it started, so B's accumulator
\* is unchanged when no invocation saved in between and is put back to what
\* A loaded when one did; an invocation that does not save leaves the file
\* as it is.
C35_OtherSessionsAsLoaded ==
    [][\A p \in Procs :
        Finishes(p)
        => /\ last'.procs[p].saved
              => \A b \in {"S1", OtherSession} \ {last.procs[p].input.session_id} :
                    SameField(store'.content, b, last.procs[p].file.content, b)
           /\ ~last'.procs[p].saved => store' = store
           /\ last.procs[p].file = store
              => \A b \in {"S1", OtherSession} \ {last.procs[p].input.session_id} :
                    SameField(store'.content, b, store.content, b)]_vars

\* a prompt of S2 and then, loaded after it saved, a Stop of S1 have both
\* counted their message: each accumulator holds its own count
C35_Witness ==
    /\ last.savers = <<1, 2>>
    /\ last.procs[2].seen = 1
    /\ last.procs[1].event = "UserPromptSubmit"
    /\ last.procs[1].input.session_id = OtherSession
    /\ last.procs[2].event = "Stop"
    /\ last.procs[2].input.session_id = "S1"
    /\ DOMAIN store.content = {"S1", OtherSession}
    /\ Get(store.content[OtherSession], "messageCount", 0) = 2
    /\ Get(store.content["S1"], "messageCount", 0) = 2

\* the fields of a Session record a field of the payload is taken from
RecordFields(f) ==
    CASE f = "externalId" -> {"sessionId"}
      [] f = "projectPath" -> {"projectPath", "cwd"}
      [] f = "promptTokens" -> {"tokenUsage"}
      [] f = "completionTokens" -> {"tokenUsage"}
      [] f = "cost" -> {"costEstimate"}
      [] f = "durationMs" -> {"startedAt", "endedAt"}
      [] OTHER -> {f}

\* C33: the payload sent for every Session record an invocation forwards has
\* the external identifier and the source, and has any other field only if
\* the record defines the field it is taken from.
C33_PayloadHasIdAndDefinedFields ==
    \A i \in SessionCalls(last.calls) :
       LET payload == transformSession(last.calls[i].rec)
       IN  /\ Has(payload, "externalId")
           /\ Has(payload, "source")
           /\ \A f \in DOMAIN payload :
                 RecordFields(f) \cap DOMAIN last.calls[i].rec # {}

\* C34: no invocation calls saveSessionState more than once.
C34_SavesAtMostOnce ==
    [][\A event \in KnownEvents \cup {OtherEvent} :
        Invoked(event)
        => SaveCount(event, loadSessionState(store), last'.input,
                     [calls |-> last'.calls, threw |-> last'.threw]) <= 1]_vars

\* the Session record a Stop forwards: its last call
StopRecord(inv) == inv.calls[Len(inv.calls)].rec

\* C36: in a failure-free run of a session that began with SessionStart,
\* the messageCount of the Session record of each Stop is the number of
\* user Messages plus the number of assistant transcript Messages forwarded
\* for the session so far.
C36_StopCountIsForwardedSoFar ==
    [][\A s \in Sessions :
        ( Handled("Stop", s) /\ delivered[s].started )
        => Get(StopRecord(last'), "messageCount", 0)
             = delivered'[s].user + delivered'[s].assistant]_vars

\* C36, amended: the messageCount of the Session record of each Stop is the
\* number of user Messages plus the number of assistant transcript Messages
\* forwarded since the latest SessionStart of the session, as long as no
\* SessionEnd has removed the accumulator since.
C36_StopCountIsForwardedSinceStart ==
    [][\A s \in Sessions :
        ( Handled("Stop", s) /\ delivered[s].open )
        => /\ Has(StopRecord(last'), "messageCount")
           /\ StopRecord(last').messageCount
                = delivered'[s].userSinceStart + delivered'[s].assistantSinceStart]_vars

\* a Stop after a second SessionStart has forwarded a count that covers the
\* prompt and the turn since that start, not the prompt before it
C36_Witness ==
    \E s \in Sessions :
      /\ last.event = "Stop"
      /\ delivered[s].open
      /\ delivered[s].user = 2
      /\ delivered[s].userSinceStart = 1
      /\ delivered[s].assistantSinceStart = 1
      /\ Get(StopRecord(last), "messageCount", 0) = 2

\* C37: after a failure-free Stop every text the parser extracts from the
\* transcript has been forwarded as a Message, by that Stop or an earlier
\* one; stated for a Stop before which the collector has accepted no turn
\* of the session, so that the Stop itself has to forward every text.
C37_NoExtractedTextDropped ==
    [][\A s \in Sessions :
        ( /\ Handled("Stop", s)
          /\ last'.input.transcript_path = "file"
          /\ ~last'.threw
          /\ delivered[s] = {} )
        => LET msgs == parseTranscriptFile([exists |-> TRUE,
                                            lines |-> transcript[s]]).assistantMessages
           IN  \A k \in 1..Len(msgs) :
                  msgs[k].uuid # NoUuid
                  => \E c \in TurnCalls(last'.calls) :
                        last'.calls[c].rec.content = msgs[k].text]_vars

\* C38: with no configuration, with autoSync false, or with an empty
\* payload on stdin, the command exits with status 0 for every event kind
\* and has neither loaded nor written the state file nor called the
\* collector.
C38_GuardsExitUntouched ==
    [][\A event \in KnownEvents \cup {OtherEvent} :
        ( /\ Invoked(event)
          /\ \/ ~last'.config.exists
             \/ Get(last'.config.settings, "autoSync", TRUE) = FALSE
             \/ \A i \in 1..Len(last'.stdin) : last'.stdin[i] \in Whitespace )
        => /\ last'.exit = 0
           /\ ~last'.logged
           /\ ~last'.loaded
           /\ store' = store
           /\ last'.calls = <<>>]_vars

\* a SessionStart with autoSync false has left an absent state file absent
\* and sent nothing, although its payload names a session
C38_Witness ==
    /\ last.event = "SessionStart"
    /\ last.config.exists
    /\ Get(last.config.settings, "autoSync", TRUE) = FALSE
    /\ last.stdin # <<>>
    /\ last.writable
    /\ ~last.loaded
    /\ last.calls = <<>>
    /\ store.status = "absent"

\* C39: the message identifiers the plugin generates for one session are
\* pairwise distinct: no handler generates an identifier the session
\* already has.
C39_PluginIdsDistinct == ~last.repeated

\* C40: for every transcript file the input total of parseTranscriptFile is
\* inputTokens + cacheCreationTokens + cacheReadTokens of parseTranscript
\* and its output total is outputTokens of parseTranscript.
C40_ParsersAgreeOnTotals ==
    last.event = "parseTranscriptFile"
    => LET stats == parseTranscript(last.input)
       IN  /\ last.result.tokenUsage.input
                = stats.inputTokens + stats.cacheCreationTokens
                  + stats.cacheReadTokens
           /\ last.result.tokenUsage.output = stats.outputTokens

====
